---- MODULE Spec2Model ----
(***************************************************************************)
(* A model of the booking transformation and aggregation pipeline of       *)
(* ticket-sheets: the field derivation engine (parse_bookings), the        *)
(* ticket-string parser (parse_tickets, extract_tickets), the booking      *)
(* transformer (split_infant_presents, calculate_walkin_price), the sort   *)
(* engine (format_for_table), the aggregation engine (subtotal_orders,     *)
(* generate_day_totals, grand_total_orders) and the tally layout           *)
(* (render_tally_data).                                                    *)
(*                                                                         *)
(* Each component has its own variables and its own specification; the     *)
(* variables of the other components stay at their idle value.             *)
(*                                                                         *)
(* Text is modelled by its structure: a price-categories cell is a         *)
(* sequence of lines, a line a sequence of whitespace-separated tokens, a  *)
(* name a sequence of character codes where case matters.  Money is held   *)
(* in pence.                                                               *)
(***************************************************************************)
EXTENDS Integers, Sequences, FiniteSets, TLC

VARIABLES
    \* ---- parse_bookings (ticket_sheets/parse_data.py) ----
    pbConfig,     \* name of the active rule set (input_format)
    pbColumns,    \* data.columns: the column labels of the input dataset, in order
    pbDfCols,     \* the set of column labels the dataframe holds now
    pbIdx,        \* position of the for loop over data.columns
    pbPhase,      \* "conv" | "extr" | "done" | "ValueError" | "KeyError"
    pbExIdx,      \* position of the for loop over col_config.extractions
    pbLog,        \* the rule steps applied so far, in the order applied
    \* ---- parse_tickets (event_breakdown.py) ----
    ptBooking,    \* the booking (a row of the export, by column label)
    ptResult,     \* what parse_tickets returned or raised
    \* ---- the breakdown (event_breakdown.py, server.py) ----
    totBookings,  \* the filtered bookings, in order
    TICKET_PRICES,\* the event price table: "<date> <event>" -> {'event': prices}
    totBreakdown, \* breakdown: per date, per event, the BookingSubTotal
    totDaily,     \* what generate_day_totals returned
    totGrand,     \* what grand_total_orders returned
    totDone,      \* the steps of the totals page that have run
    \* ---- the tally sheet (ticket_sheets/tally.py, server.py) ----
    tlOrders,     \* the orders of the day, in order
    tlLimits,     \* data_config.train_limits, in key order
    tlGrid,       \* what render_tally_data returned or raised
    tlBy,         \* which render_tally_data ran
    \* ---- the alphabetical listing (parse_data.py, parse_ticket_sheet.py) ----
    stRows,       \* the rows of the export, in order
    stTable,      \* the listing as it stands
    stPrev,       \* the listing before it was last sorted
    stRuns,       \* the number of times the listing was sorted
    \* ---- the walk-in price (parse_ticket_sheet.py) ----
    wkBooking,    \* the booking (a row of the export, by column label)
    wkTicketPrices, \* parse_ticket_sheet.TICKET_PRICES
    wkResult,     \* what calculate_walkin_price returned or raised, and booking['walkin']
    \* ---- the child/infant split (ticket_sheets/conversions.py) ----
    siData,       \* the rows of the dataframe: price categories and present codes
    siHasPresents,\* "Present Type_formatted" is a column of the dataframe
    siPrev,       \* the rows before split_infant_presents was last applied
    siRuns,       \* the number of times split_infant_presents was applied
    siTickets,    \* the ticket_<name> columns of extract_tickets
    \* ---- the additional adults and seniors (ticket_sheets/conversions.py) ----
    adData,       \* the rows of the dataframe: the cells and the derived columns
    adColumns,    \* data.columns: the order of the columns of the export
    adDerived,    \* the derived columns the dataframe holds
    adIdx,        \* position of the for loop of parse_bookings over data.columns
    adStatus,     \* "run" | "done" | the exception raised
    \* ---- the order of the ticket types (event_breakdown.py, server.py) ----
    otTotals,     \* ticket_totals of a day: the keys in insertion order, the quantities
    otTypes,      \* what order_ticket_types returned
    otSorted,     \* ticket_totals_sorted: the (key, quantity) pairs in insertion order
    otDone,       \* the keys were reinserted
    \* ---- the filters (ticket_sheets/parse_data.py) ----
    flData,       \* the dataset passed to apply_filters, in order
    flConfig,     \* "hide old orders", "old order date", "product filter"
    flResult,     \* the dataset apply_filters returned
    flDone,       \* apply_filters has returned
    \* ---- the numeric conversions (ticket_sheets/conversions.py, parse_data.py) ----
    cvData,       \* the rows of the dataframe: the "Quantity" and "Product price" cells
    cvColumns,    \* data.columns: the order of the two columns in the export
    cvFormatted,  \* the "<column>_formatted" columns: column label -> the values by row
    cvIdx,        \* position of the for loop of parse_bookings over data.columns
    cvStatus,     \* "run" | "done" | the exception raised
    \* ---- the present details (ticket_sheets/conversions.py) ----
    prRow,        \* the row: the "Present Type" cell and the "Child Age" columns
    prResult,     \* what present_details returned or raised for the row
    \* ---- the accompanying tickets (ticket_sheets/conversions.py) ----
    iaData,       \* the rows of the dataframe: price categories, accompanying counts
    iaHasCols,    \* the accompanying "_formatted" columns are columns of the dataframe
    iaPrev,       \* the rows before include_accompanying was applied
    iaTickets,    \* the ticket_<name> columns of extract_tickets
    iaStep,       \* "start" | "included" | "extracted"
    bdData,        \* the frame given to the breakdowns
    bdTotals,      \* the result of generate_overall_breakdown
    bdEvents,      \* the result of generate_event_breakdown
    psData,        \* the parsed bookings: date, start time, present codes
    psByAge,       \* the result of summarise_presents_by_age
    psByTrain,     \* the result of summarise_presents_by_train
    cfFile,        \* config.json: the stored configuration
    cfConfig,      \* the _config dict of every worker
    cfReq,         \* what every worker has done so far
    cfCalls,       \* the number of calls every worker has made
    cfLast,        \* the last call: its worker, function, argument and outcome
    cfPrev,        \* the _config of that worker and the store before the last call
    ftData,        \* the parsed bookings given to format_for_table
    ftConfig,      \* the TableConfig: sorts, group_by_date, demark_train
    ftDailyTotals, \* the daily_totals argument
    ftRows,        \* the TableRows returned
    ftDone         \* format_for_table has returned

pbVars == <<pbConfig, pbColumns, pbDfCols, pbIdx, pbPhase, pbExIdx, pbLog>>
ptVars == <<ptBooking, ptResult>>
totVars == <<totBookings, TICKET_PRICES, totBreakdown, totDaily, totGrand, totDone>>

tlVars == <<tlOrders, tlLimits, tlGrid, tlBy>>

stVars == <<stRows, stTable, stPrev, stRuns>>

wkVars == <<wkBooking, wkTicketPrices, wkResult>>

siVars == <<siData, siHasPresents, siPrev, siRuns, siTickets>>

adVars == <<adData, adColumns, adDerived, adIdx, adStatus>>

otVars == <<otTotals, otTypes, otSorted, otDone>>

flVars == <<flData, flConfig, flResult, flDone>>

cvVars == <<cvData, cvColumns, cvFormatted, cvIdx, cvStatus>>

prVars == <<prRow, prResult>>

iaVars == <<iaData, iaHasCols, iaPrev, iaTickets, iaStep>>

bdVars == <<bdData, bdTotals, bdEvents>>

psVars == <<psData, psByAge, psByTrain>>

cfVars == <<cfFile, cfConfig, cfReq, cfCalls, cfLast, cfPrev>>

ftVars == <<ftData, ftConfig, ftDailyTotals, ftRows, ftDone>>

vars == <<pbVars, ptVars, totVars, tlVars, stVars, wkVars, siVars, adVars, otVars, flVars, cvVars, prVars, iaVars, bdVars, psVars, cfVars, ftVars>>

-----------------------------------------------------------------------------
(* Generic helpers *)

Range(s) == {s[i] : i \in 1..Len(s)}

\* Sequences over S of length 0..n
RECURSIVE SeqsUpTo(_, _)
SeqsUpTo(S, n) ==
    IF n = 0 THEN {<<>>}
    ELSE LET shorter == SeqsUpTo(S, n - 1)
         IN  shorter \cup {Append(s, x) : s \in {t \in shorter : Len(t) = n - 1}, x \in S}

\* Sequences over S of length 0..n, without repeated elements
DistinctSeqs(S, n) ==
    {s \in SeqsUpTo(S, n) : \A i, j \in 1..Len(s) : i # j => s[i] # s[j]}

\* A dict: a function whose domain is its keys
EmptyDict == [k \in {} |-> 0]

\* d[k] += v on a defaultdict(int)
DictAdd(d, k, v) ==
    IF k \in DOMAIN d THEN [d EXCEPT ![k] = @ + v] ELSE d @@ (k :> v)

\* d.get(k, default)
DictGet(d, k, default) == IF k \in DOMAIN d THEN d[k] ELSE default

\* sum(d.values())
RECURSIVE SumValues(_)
SumValues(d) ==
    IF DOMAIN d = {} THEN 0
    ELSE LET k == CHOOSE k \in DOMAIN d : TRUE
         IN  d[k] + SumValues([j \in DOMAIN d \ {k} |-> d[j]])

\* list(d.keys()): the keys of a dict as a list
RECURSIVE KeysOf(_)
KeysOf(d) ==
    IF DOMAIN d = {} THEN <<>>
    ELSE LET k == CHOOSE k \in DOMAIN d : TRUE
         IN  <<k>> \o KeysOf([j \in DOMAIN d \ {k} |-> d[j]])

\* The elements of a list in the order of their first occurrence (dict keys)
RECURSIVE Dedup(_)
Dedup(ks) ==
    IF ks = <<>> THEN <<>>
    ELSE LET d == Dedup(SubSeq(ks, 1, Len(ks) - 1))
         IN  IF ks[Len(ks)] \in Range(d) THEN d ELSE Append(d, ks[Len(ks)])

\* A stable sort of a list by the integer ranks of its elements (ranks[i] the rank
\* of items[i]): an element goes after the elements that do not rank above it
RECURSIVE InsertByRank(_, _)
InsertByRank(sorted, x) ==
    IF sorted = <<>> THEN <<x>>
    ELSE IF x.rank < Head(sorted).rank THEN <<x>> \o sorted
    ELSE <<Head(sorted)>> \o InsertByRank(Tail(sorted), x)

RECURSIVE SortRanked(_)
SortRanked(pairs) ==
    IF pairs = <<>> THEN <<>>
    ELSE InsertByRank(SortRanked(SubSeq(pairs, 1, Len(pairs) - 1)), pairs[Len(pairs)])

StableSort(items, ranks) ==
    LET sorted == SortRanked([i \in 1..Len(items) |-> [item |-> items[i], rank |-> ranks[i]]])
    IN  [i \in 1..Len(sorted) |-> sorted[i].item]

RECURSIVE SumSeq(_)
SumSeq(s) == IF s = <<>> THEN 0 ELSE s[1] + SumSeq(Tail(s))

\* Index of the first element of s equal to x, 0 when there is none (list.index)
IndexOf(s, x) ==
    IF \E i \in 1..Len(s) : s[i] = x
    THEN CHOOSE i \in 1..Len(s) : s[i] = x /\ \A j \in 1..(i - 1) : s[j] # x
    ELSE 0

-----------------------------------------------------------------------------
(* Text.  A line of a price-categories cell is the sequence of its            *)
(* whitespace-separated tokens; "Adult: 2 (#9.00)" (# the currency glyph) is  *)
(* <<WordC("Adult"), Num(2), Price(900)>>.                                    *)

Word(s) == [k |-> "word", s |-> s, n |-> 0]      \* a word
WordC(s) == [k |-> "wordc", s |-> s, n |-> 0]    \* a word that ends in a colon
Num(n) == [k |-> "num", s |-> "", n |-> n]       \* the decimal text of an integer
Price(p) == [k |-> "price", s |-> "", n |-> p]   \* "(" glyph pounds.pence ")"
Junk == [k |-> "junk", s |-> "x", n |-> 0]       \* a token that is none of these

\* The tokens of a ticket type name followed by its colon
NameTokens(name) ==
    IF name = "Family Child" THEN <<Word("Family"), WordC("Child")>> ELSE <<WordC(name)>>

\* f"{name}: {qty} (#{price})", the ticket line of the export
TicketLine(name, qty, price) == NameTokens(name) \o <<Num(qty), Price(price)>>

\* The words of a name joined by single spaces
JoinWords(ws) ==
    CASE Len(ws) = 1 -> ws[1]
      [] ws = <<"Family", "Child">> -> "Family Child"
      [] OTHER -> "?"

\* The position of the first colon of a line: the first token that ends in one (0: none)
FirstColon(line) ==
    IF \E i \in 1..Len(line) : line[i].k = "wordc"
    THEN CHOOSE i \in 1..Len(line) :
             line[i].k = "wordc" /\ \A j \in 1..(i - 1) : line[j].k # "wordc"
    ELSE 0

\* The number of colons of a line
CountColons(line) == Cardinality({i \in 1..Len(line) : line[i].k = "wordc"})

\* The text of a line before its first colon
NameBeforeColon(line) ==
    JoinWords([i \in 1..FirstColon(line) |-> line[i].s])

\* The whitespace-separated fields of a line after its first colon
FieldsAfterColon(line) == SubSeq(line, FirstColon(line) + 1, Len(line))

\* int(token) succeeds
IsInt(tok) == tok.k = "num"

\* float(token[2:-1]) succeeds: the token is a parenthesised price
IsPrice(tok) == tok.k = "price"

\* Free text of the age columns, one entry per attendee: "#<idx>: <age>"
AgeTexts == {"0 to 1 yrs old", "1 to 2 yrs old", "2 to 3 yrs old", "7 yrs old"}

\* The number of occurrences of a pattern in an age text (str.count; `in` is count > 0)
Occurrences(pat, text) ==
    CASE pat = "0 to 1 yr" -> IF text = "0 to 1 yrs old" THEN 1 ELSE 0
      [] pat = "1 to 2 yr" -> IF text = "1 to 2 yrs old" THEN 1 ELSE 0
      [] pat = "to" -> IF text \in {"0 to 1 yrs old", "1 to 2 yrs old", "2 to 3 yrs old"}
                       THEN 1 ELSE 0
      [] OTHER -> 0

\* An optional column of a row: absent from the export, or holding entries
\* (no entry: the empty string)
AbsentColumn == [present |-> FALSE, entries |-> <<>>]
Column(entries) == [present |-> TRUE, entries |-> entries]

\* An accompanying adult / senior cell: absent, empty, or "<n>#<v>" with `glyphs`
\* currency glyphs between the count and the value (0: the bare count "<n>")
AccAbsent == [kind |-> "absent", n |-> 0, v |-> 0, glyphs |-> 0]
AccEmpty == [kind |-> "empty", n |-> 0, v |-> 0, glyphs |-> 0]
AccText(n, v) == [kind |-> "text", n |-> n, v |-> v, glyphs |-> 1]
AccBare(n) == [kind |-> "text", n |-> n, v |-> 0, glyphs |-> 0]

-----------------------------------------------------------------------------
(* The field derivation engine: parse_bookings *)

\* Bound: the number of columns of the input dataset
MaxCols == 3

FieldConfig(col, conversion, extractions) ==
    [col |-> col, conversion |-> conversion, extractions |-> extractions]

\* DEFAULT_CONFIGS[name].input_format, in declaration order
INPUT_FORMAT ==
    [general |-> <<
        FieldConfig("Booking ID", "parse_int", <<>>),
        FieldConfig("Order ID", "parse_int", <<>>),
        FieldConfig("Product title", "simplify_product", <<>>),
        FieldConfig("Quantity", "parse_int", <<>>),
        FieldConfig("Product price", "tidy_price", <<>>),
        FieldConfig("Price categories", "", <<"extract_tickets">>) >>,
     santa |-> <<
        FieldConfig("Booking ID", "parse_int", <<>>),
        FieldConfig("Order ID", "parse_int", <<>>),
        FieldConfig("Product title", "simplify_product", <<>>),
        FieldConfig("Quantity", "parse_int", <<>>),
        FieldConfig("Accompanying Adult", "parse_int", <<"include_additional_adults">>),
        FieldConfig("Accompanying Senior", "parse_int", <<"include_additional_seniors">>),
        FieldConfig("Present Type", "", <<"extract_present_details">>),
        FieldConfig("Price categories", "",
                    <<"include_accompanying", "split_infant_presents", "extract_tickets">>),
        FieldConfig("Product price", "tidy_price", <<"calculate_walkin_price">>) >>]

ConfigNames == {"general", "santa"}

\* The attributes of the module ticket_sheets.conversions that getattr can resolve
ConversionsModule ==
    {"simplify_product", "tidy_price", "parse_date", "parse_int",
     "extract_tickets", "extract_present_details", "include_additional_adults",
     "include_additional_seniors", "include_accompanying", "split_infant_presents",
     "title_case", "comma_sep", "train_time", "train_date", "format_price",
     "simple_date", "heading_date", "insert_html_newlines", "sum", "price_sum",
     "order_count", "label", "category_sum", "present_sum", "order_count_2",
     "label_2", "label_3", "_categorise_presents", "_update_tickets"}

\* Column labels an export may hold
CsvColumns ==
    {"Booking ID", "Order ID", "Product title", "Quantity", "Accompanying Adult",
     "Accompanying Senior", "Present Type", "Price categories", "Product price",
     "Special Needs"}

\* config.get(col_name): the FieldConfig of a column, or None
ConfigGet(config, col) ==
    LET fmt == INPUT_FORMAT[config]
        i == CHOOSE i \in 0..Len(fmt) :
                 IF \E k \in 1..Len(fmt) : fmt[k].col = col
                 THEN i > 0 /\ fmt[i].col = col
                 ELSE i = 0
    IN  IF i = 0 THEN [col |-> "None", conversion |-> "", extractions |-> <<>>]
        ELSE fmt[i]

HasConfig(config, col) == \E k \in 1..Len(INPUT_FORMAT[config]) : INPUT_FORMAT[config][k].col = col

\* f"{col_name}_formatted"
Formatted(col) ==
    CASE col = "Booking ID" -> "Booking ID_formatted"
      [] col = "Order ID" -> "Order ID_formatted"
      [] col = "Product title" -> "Product title_formatted"
      [] col = "Quantity" -> "Quantity_formatted"
      [] col = "Accompanying Adult" -> "Accompanying Adult_formatted"
      [] col = "Accompanying Senior" -> "Accompanying Senior_formatted"
      [] col = "Present Type" -> "Present Type_formatted"
      [] col = "Price categories" -> "Price categories_formatted"
      [] col = "Product price" -> "Product price_formatted"
      [] OTHER -> "Special Needs_formatted"

\* The column labels an extraction adds to the dataframe
ExtractionAdds(name, col) ==
    CASE name = "extract_present_details" -> {Formatted(col)}
      [] name = "extract_tickets" -> {"ticket_*"}
      [] OTHER -> {}

\* Whether an extraction reads a column that must exist (a KeyError otherwise)
ExtractionFails(name, dfCols) ==
    CASE name \in {"include_additional_adults", "include_additional_seniors"} ->
            "Price categories" \in dfCols /\ "Product title" \notin dfCols
      [] OTHER -> FALSE

CurrentColumn == pbColumns[pbIdx]

\* The variables parse_bookings does not touch
pbOthers == <<ptVars, totVars, tlVars, stVars, wkVars, siVars, adVars, otVars, flVars, cvVars, prVars, iaVars, bdVars, psVars, cfVars, ftVars>>

pbInit ==
    /\ pbConfig \in ConfigNames
    /\ pbColumns \in DistinctSeqs(CsvColumns, MaxCols)
    /\ pbDfCols = Range(pbColumns)
    /\ pbIdx = 1
    /\ pbPhase = "conv"
    /\ pbExIdx = 1
    /\ pbLog = <<>>

pbIdle ==
    /\ pbConfig = "general"
    /\ pbColumns = <<>>
    /\ pbDfCols = {}
    /\ pbIdx = 1
    /\ pbPhase = "idle"
    /\ pbExIdx = 1
    /\ pbLog = <<>>

\* for col_name in data.columns: a column without a rule is passed over
SkipColumn ==
    /\ pbPhase = "conv"
    /\ pbIdx <= Len(pbColumns)
    /\ ~HasConfig(pbConfig, CurrentColumn)
    /\ pbIdx' = pbIdx + 1
    /\ UNCHANGED <<pbConfig, pbColumns, pbDfCols, pbPhase, pbExIdx, pbLog>>
    /\ UNCHANGED pbOthers

\* if conv_name := col_config.conversion: ... data.loc[:, f"{col_name}_formatted"] = ...
ApplyConversion ==
    /\ pbPhase = "conv"
    /\ pbIdx <= Len(pbColumns)
    /\ HasConfig(pbConfig, CurrentColumn)
    /\ LET cfg == ConfigGet(pbConfig, CurrentColumn)
       IN  IF cfg.conversion = ""
           THEN /\ pbPhase' = "extr"
                /\ UNCHANGED <<pbDfCols, pbLog>>
           ELSE IF cfg.conversion \notin ConversionsModule
           THEN /\ pbPhase' = "ValueError"
                /\ UNCHANGED <<pbDfCols, pbLog>>
           ELSE /\ pbPhase' = "extr"
                /\ pbDfCols' = pbDfCols \cup {Formatted(CurrentColumn)}
                /\ pbLog' = Append(pbLog, [col |-> CurrentColumn, kind |-> "conversion",
                                           name |-> cfg.conversion])
    /\ pbExIdx' = 1
    /\ UNCHANGED <<pbConfig, pbColumns, pbIdx>>
    /\ UNCHANGED pbOthers

\* for extract_name in col_config.extractions: extract_func(data, col_name)
ApplyExtraction ==
    /\ pbPhase = "extr"
    /\ LET cfg == ConfigGet(pbConfig, CurrentColumn)
       IN  /\ pbExIdx <= Len(cfg.extractions)
           /\ LET name == cfg.extractions[pbExIdx]
              IN  IF name \notin ConversionsModule
                  THEN /\ pbPhase' = "ValueError"
                       /\ UNCHANGED <<pbDfCols, pbLog, pbExIdx>>
                  ELSE IF ExtractionFails(name, pbDfCols)
                  THEN /\ pbPhase' = "KeyError"
                       /\ pbLog' = Append(pbLog, [col |-> CurrentColumn,
                                                  kind |-> "extraction", name |-> name])
                       /\ UNCHANGED <<pbDfCols, pbExIdx>>
                  ELSE /\ pbDfCols' = pbDfCols \cup ExtractionAdds(name, CurrentColumn)
                       /\ pbLog' = Append(pbLog, [col |-> CurrentColumn,
                                                  kind |-> "extraction", name |-> name])
                       /\ pbExIdx' = pbExIdx + 1
                       /\ UNCHANGED pbPhase
    /\ UNCHANGED <<pbConfig, pbColumns, pbIdx>>
    /\ UNCHANGED pbOthers

\* the end of the extractions of one column: on to the next column
NextColumn ==
    /\ pbPhase = "extr"
    /\ pbExIdx > Len(ConfigGet(pbConfig, CurrentColumn).extractions)
    /\ pbIdx' = pbIdx + 1
    /\ pbPhase' = "conv"
    /\ pbExIdx' = 1
    /\ UNCHANGED <<pbConfig, pbColumns, pbDfCols, pbLog>>
    /\ UNCHANGED pbOthers

\* return data
ReturnData ==
    /\ pbPhase = "conv"
    /\ pbIdx > Len(pbColumns)
    /\ pbPhase' = "done"
    /\ UNCHANGED <<pbConfig, pbColumns, pbDfCols, pbIdx, pbExIdx, pbLog>>
    /\ UNCHANGED pbOthers

pbNext == SkipColumn \/ ApplyConversion \/ ApplyExtraction \/ NextColumn \/ ReturnData

-----------------------------------------------------------------------------
(* The ticket-string parser of the breakdown: event_breakdown.parse_tickets *)

\* Bounds: the lines of a price-categories cell, and the quantity of a line
MaxLines == 2
MaxQty == 2

\* Ticket types of the export and the unit price (pence) its lines quote
ExportTypes == {"Adult", "Child", "Family Child"}
QuotedPrice(name) ==
    CASE name = "Adult" -> 900
      [] name = "Senior" -> 800
      [] name = "Child" -> 700
      [] OTHER -> 600

WellFormedLines == {TicketLine(name, q, QuotedPrice(name)) : name \in ExportTypes, q \in 1..MaxQty}

\* Lines that do not follow "<name>: <qty> (#<price>)": no colon, no quantity,
\* a quantity that is no number, no price
MalformedLines ==
    {<<Word("Adult"), Num(1), Price(900)>>,
     <<WordC("Adult")>>,
     <<WordC("Adult"), Junk, Price(900)>>,
     <<WordC("Adult"), Num(1)>>}

AgeEntry(idx, age) == [idx |-> idx, age |-> age]

\* The quantity the export states for a row: the sum of the quantities of its lines
RawQuantity(cats) ==
    SumSeq([i \in 1..Len(cats) |->
               IF \E j \in 1..Len(cats[i]) : cats[i][j].k = "num"
               THEN cats[i][CHOOSE j \in 1..Len(cats[i]) :
                               cats[i][j].k = "num" /\ \A h \in 1..(j - 1) : cats[i][h].k # "num"].n
               ELSE 0])

\* A row of the export, by column label
Booking(cats, accAdult, accSenior, ageNov, ageDec) ==
    [Price_categories |-> cats,
     Accompanying_Adult |-> accAdult,
     Accompanying_Senior |-> accSenior,
     Child_Age_Nov |-> ageNov,
     Child_Age_Dec |-> ageDec,
     Quantity |-> RawQuantity(cats)]

ptBookings ==
    {Booking(cats, aa, as, nov, dec) :
        cats \in SeqsUpTo(WellFormedLines \cup MalformedLines, MaxLines),
        aa \in {AccAbsent, AccEmpty, AccText(0, 0), AccText(2, 900), AccBare(1)},
        as \in {AccAbsent, AccText(1, 800)},
        nov \in {AbsentColumn, Column(<<>>),
                 Column(<<AgeEntry(1, "7 yrs old")>>),
                 Column(<<AgeEntry(1, "0 to 1 yrs old")>>),
                 Column(<<AgeEntry(1, "2 to 3 yrs old")>>),
                 Column(<<AgeEntry(1, "0 to 1 yrs old"), AgeEntry(2, "1 to 2 yrs old")>>)},
        dec \in {AbsentColumn, Column(<<>>), Column(<<AgeEntry(3, "1 to 2 yrs old")>>)}}

Ticket(name, qty, price) == [name |-> name, qty |-> qty, price |-> price]

Raised(exc) == [status |-> exc, tickets |-> <<>>]
Returned(tickets) == [status |-> "ok", tickets |-> tickets]

\* A variant of FoldAccompanying that adds the line of a count of 0 as well
FoldAccompanying_ZeroKept(folded, acc, name) ==
    IF folded.status # "ok" \/ acc.kind # "text" THEN folded
    ELSE IF acc.glyphs # 1 THEN Raised("ValueError")
    ELSE Returned(Append(folded.tickets, TicketLine(name, acc.n, acc.v)))

\* if booking.get(field): n, value = booking[field].split(glyph);
\*     if n != '0': tickets.append(f"{name}: {n} (#{value})")
FoldAccompanying(folded, acc, name) ==
    IF folded.status # "ok" \/ acc.kind # "text" THEN folded
    ELSE IF acc.glyphs # 1 THEN Raised("ValueError")
    ELSE IF acc.n # 0
         THEN Returned(Append(folded.tickets, TicketLine(name, acc.n, acc.v)))
         ELSE folded

\* A variant of InfantAgeEntry that takes every age range for an infant's
InfantAgeEntry_AnyRange(entry) == Occurrences("to", entry.age) > 0

\* if '0 to 1 yr' in present or '1 to 2 yr' in present
InfantAgeEntry(entry) ==
    Occurrences("0 to 1 yr", entry.age) > 0 \/ Occurrences("1 to 2 yr", entry.age) > 0

\* A variant of ChildTickets that counts the infants without taking them off the
\* Child quantity
ChildTickets_NoDecrement(ticket_qty, infant_qty) ==
    <<Ticket("Child", ticket_qty, 0), Ticket("Infant", infant_qty, 0)>>

\* infant_qty += 1; ticket_qty -= 1 for each infant, then the two records
ChildTickets(ticket_qty, infant_qty) ==
    <<Ticket("Child", ticket_qty - infant_qty, 0), Ticket("Infant", infant_qty, 0)>>

\* The records of one ticket line (the body of the for loop of parse_tickets)
ParseTicketLine(ticket, booking) ==
    IF FirstColon(ticket) = 0 THEN Raised("ValueError")
    ELSE LET ticket_name == NameBeforeColon(ticket)
             ticket_fields == FieldsAfterColon(ticket)
         IN  IF Len(ticket_fields) < 1 THEN Raised("IndexError")
             ELSE IF ~IsInt(ticket_fields[1]) THEN Raised("ValueError")
             ELSE IF Len(ticket_fields) < 2 THEN Raised("IndexError")
             ELSE IF ~IsPrice(ticket_fields[2]) THEN Raised("ValueError")
             ELSE IF ticket_name = "Child"
             THEN IF ~booking.Child_Age_Nov.present \/ ~booking.Child_Age_Dec.present
                  THEN Raised("KeyError")
                  ELSE LET presents == booking.Child_Age_Nov.entries
                                         \o booking.Child_Age_Dec.entries
                           infant_qty == Cardinality({i \in 1..Len(presents) :
                                                         InfantAgeEntry(presents[i])})
                       IN  Returned(ChildTickets(ticket_fields[1].n, infant_qty))
             ELSE Returned(<<Ticket(ticket_name, ticket_fields[1].n, ticket_fields[2].n)>>)

\* for ticket in tickets: ... ticket_output.append(...)
RECURSIVE ParseTicketLines(_, _, _)
ParseTicketLines(tickets, booking, ticket_output) ==
    IF tickets = <<>> THEN Returned(ticket_output)
    ELSE LET r == ParseTicketLine(Head(tickets), booking)
         IN  IF r.status # "ok" THEN r
             ELSE ParseTicketLines(Tail(tickets), booking, ticket_output \o r.tickets)

\* The ticket lines parse_tickets walks: the lines of the cell, then the
\* accompanying adults and seniors
TicketsWithAccompanying(ticket_str, booking) ==
    FoldAccompanying(FoldAccompanying(Returned(ticket_str),
                                      booking.Accompanying_Adult, "Adult"),
                     booking.Accompanying_Senior, "Senior")

parse_tickets(ticket_str, booking) ==
    LET folded == TicketsWithAccompanying(ticket_str, booking)
    IN  IF folded.status # "ok" THEN folded
        ELSE ParseTicketLines(folded.tickets, booking, <<>>)

NoResult == [status |-> "none", tickets |-> <<>>]

ptInit ==
    /\ ptBooking \in ptBookings
    /\ ptResult = NoResult

ptIdle ==
    /\ ptBooking = Booking(<<>>, AccAbsent, AccAbsent, AbsentColumn, AbsentColumn)
    /\ ptResult = NoResult

\* The variables parse_tickets does not touch
ptOthers == <<pbVars, totVars, tlVars, stVars, wkVars, siVars, adVars, otVars, flVars, cvVars, prVars, iaVars, bdVars, psVars, cfVars, ftVars>>

\* tickets = parse_tickets(booking_dict['Price categories'], booking=booking_dict)
ParseTickets ==
    /\ ptResult = NoResult
    /\ ptResult' = parse_tickets(ptBooking.Price_categories, ptBooking)
    /\ UNCHANGED ptBooking
    /\ UNCHANGED ptOthers

ptNext == ParseTickets

\* A line of the form "<name>: <qty> (#<price>)"
IsTicketLine(line) ==
    /\ FirstColon(line) > 0
    /\ Len(FieldsAfterColon(line)) = 2
    /\ FieldsAfterColon(line)[1].k = "num"
    /\ FieldsAfterColon(line)[2].k = "price"

\* A row as the export writes it: ticket lines, accompanying cells of the form
\* "<n>#<v>" when filled in, both age columns there
WellFormedBooking(b) ==
    /\ \A i \in 1..Len(b.Price_categories) : IsTicketLine(b.Price_categories[i])
    /\ \A acc \in {b.Accompanying_Adult, b.Accompanying_Senior} :
           acc.kind = "text" => acc.glyphs = 1
    /\ b.Child_Age_Nov.present /\ b.Child_Age_Dec.present

\* The age columns of a row name an attendee of infant age (0 to 1, 1 to 2)
NamesInfantAge(b) ==
    \E c \in {b.Child_Age_Nov, b.Child_Age_Dec} :
        \E i \in 1..Len(c.entries) : c.entries[i].age \in {"0 to 1 yrs old", "1 to 2 yrs old"}

IsChildLine(line) == FirstColon(line) > 0 /\ NameBeforeColon(line) = "Child"
IsChildTicket(t) == t.name = "Child"
IsInfantTicket(t) == t.name = "Infant"

\* The quantities of the Child lines of a cell, in order
ChildLineQtys(cats) ==
    LET lines == SelectSeq(cats, IsChildLine)
    IN  [i \in 1..Len(lines) |-> FieldsAfterColon(lines[i])[1].n]

TicketQtys(tickets) == [i \in 1..Len(tickets) |-> tickets[i].qty]

\* The records parse_tickets made of the lines of the cell: every line gives one
\* record and a Child line two; the accompanying records follow them
LineTickets(b, tickets) ==
    SubSeq(tickets, 1, Len(b.Price_categories) + Len(SelectSeq(b.Price_categories, IsChildLine)))

\* C5: for a booking with a Child line of quantity > 0 whose age columns name no
\* attendee of infant age, parse_tickets emits an Infant record of quantity 0 and
\* a Child record with the quantity of the Child line.
C5_NoInfantChildUnchanged ==
    (/\ ptResult # NoResult
     /\ WellFormedBooking(ptBooking)
     /\ ~NamesInfantAge(ptBooking)
     /\ \E i \in 1..Len(ChildLineQtys(ptBooking.Price_categories)) :
            ChildLineQtys(ptBooking.Price_categories)[i] > 0)
    => /\ ptResult.status = "ok"
       /\ TicketQtys(SelectSeq(ptResult.tickets, IsChildTicket))
              = ChildLineQtys(ptBooking.Price_categories)
       /\ TicketQtys(SelectSeq(ptResult.tickets, IsInfantTicket))
              = [i \in 1..Len(ChildLineQtys(ptBooking.Price_categories)) |-> 0]

\* C5's case: a parsed booking with a Child line, an age entry of another age and
\* an Infant record of quantity 0
C5_Witness ==
    /\ ptResult.status = "ok"
    /\ ~NamesInfantAge(ptBooking)
    /\ Len(ptBooking.Child_Age_Nov.entries) > 0
    /\ Len(ChildLineQtys(ptBooking.Price_categories)) > 0
    /\ \E i \in 1..Len(ptResult.tickets) :
           ptResult.tickets[i].name = "Infant" /\ ptResult.tickets[i].qty = 0

OtherCellsWellFormed(b) ==
    /\ \A acc \in {b.Accompanying_Adult, b.Accompanying_Senior} :
           acc.kind = "text" => acc.glyphs = 1
    /\ b.Child_Age_Nov.present /\ b.Child_Age_Dec.present

\* C11: a malformed line of the price categories (no colon, no quantity, a
\* quantity that is no number, no price) does not abort parse_tickets: it returns,
\* and its records hold the record of every well-formed line of the booking.
C11_MalformedLineSkipped ==
    (ptResult # NoResult /\ OtherCellsWellFormed(ptBooking))
    => /\ ptResult.status = "ok"
       /\ \A i \in 1..Len(ptBooking.Price_categories) :
              LET line == ptBooking.Price_categories[i]
              IN  (IsTicketLine(line) /\ ~IsChildLine(line))
                  => \E j \in 1..Len(ptResult.tickets) :
                         ptResult.tickets[j] = Ticket(NameBeforeColon(line),
                                                      FieldsAfterColon(line)[1].n,
                                                      FieldsAfterColon(line)[2].n)

\* The record of an accompanying cell "<n>#<v>" with n not 0; no record otherwise
AccompanyingRecord(acc, name) ==
    IF acc.kind = "text" /\ acc.n # 0 THEN <<Ticket(name, acc.n, acc.v)>> ELSE <<>>

\* The booking without its accompanying cells
WithoutAccompanying(b) ==
    [b EXCEPT !.Accompanying_Adult = AccAbsent, !.Accompanying_Senior = AccAbsent]

\* C12: for a booking of ticket lines, the records of parse_tickets are the
\* records of the lines, the same as without accompanying cells, followed by one
\* Adult record (n, v) when 'Accompanying Adult' is "<n>#<v>" with n not 0 and
\* then one Senior record likewise; an absent or empty cell, or n = 0, adds none.
C12_AccompanyingFolded ==
    (ptResult # NoResult /\ WellFormedBooking(ptBooking))
    => /\ ptResult.status = "ok"
       /\ parse_tickets(ptBooking.Price_categories, WithoutAccompanying(ptBooking)).tickets
              = LineTickets(ptBooking, ptResult.tickets)
       /\ ptResult.tickets =
              LineTickets(ptBooking, ptResult.tickets)
              \o AccompanyingRecord(ptBooking.Accompanying_Adult, "Adult")
              \o AccompanyingRecord(ptBooking.Accompanying_Senior, "Senior")

\* C12's case: a parsed booking with lines, two accompanying adults and one senior
C12_Witness ==
    /\ ptResult.status = "ok"
    /\ Len(ptBooking.Price_categories) = 2
    /\ ptBooking.Accompanying_Adult = AccText(2, 900)
    /\ ptBooking.Accompanying_Senior = AccText(1, 800)
    /\ Len(ptResult.tickets) >= 4
    /\ ptResult.tickets[Len(ptResult.tickets) - 1] = Ticket("Adult", 2, 900)
    /\ ptResult.tickets[Len(ptResult.tickets)] = Ticket("Senior", 1, 800)

\* C19: a booking with a Child line whose cells are well formed is parsed whichever
\* of the optional columns (the accompanying cells, the two age columns) the export
\* leaves out: parse_tickets returns, an absent accompanying column adds no record,
\* and absent age columns take no infant from the Child line.
C19_AbsentColumnsTolerated ==
    (/\ ptResult # NoResult
     /\ \A i \in 1..Len(ptBooking.Price_categories) : IsTicketLine(ptBooking.Price_categories[i])
     /\ \E i \in 1..Len(ptBooking.Price_categories) : IsChildLine(ptBooking.Price_categories[i])
     /\ \A acc \in {ptBooking.Accompanying_Adult, ptBooking.Accompanying_Senior} :
            acc.kind = "text" => acc.glyphs = 1)
    => /\ ptResult.status = "ok"
       /\ ptBooking.Accompanying_Adult = AccAbsent
          => ptResult.tickets
                 = LineTickets(ptBooking, ptResult.tickets)
                       \o AccompanyingRecord(ptBooking.Accompanying_Senior, "Senior")
       /\ (~ptBooking.Child_Age_Nov.present /\ ~ptBooking.Child_Age_Dec.present)
          => \A j \in 1..Len(ptResult.tickets) :
                 IsInfantTicket(ptResult.tickets[j]) => ptResult.tickets[j].qty = 0

\* C29: every record parse_tickets returns has a quantity of 0 or more (the
\* quantities of the lines are 0 or more); the Child quantity left after the
\* infants of the age columns are taken off is never negative.
C29_QuantitiesNotNegative ==
    (ptResult # NoResult /\ ptResult.status = "ok")
    => \A j \in 1..Len(ptResult.tickets) : ptResult.tickets[j].qty >= 0

-----------------------------------------------------------------------------
(* The aggregation engine: group_bookings, subtotal_orders,                 *)
(* prepare_ticket_breakdown, generate_day_totals, grand_total_orders        *)

\* Bound: the number of bookings of the dataset
MaxBookings == 2

STANDARD_PRICES == ("Adult" :> 900) @@ ("Senior" :> 800) @@ ("Child" :> 700)

PREORDERED_TYPES == <<"Adult", "Senior", "Child", "Family Child">>

\* The rank of a ticket type name in lexical (code point) order
LexRank(name) ==
    CASE name = "Adult" -> 1
      [] name = "Carer" -> 2
      [] name = "Child" -> 3
      [] name = "Family Child" -> 4
      [] name = "Infant" -> 5
      [] name = "Senior" -> 6
      [] OTHER -> 7

\* A variant of order_ticket_types that leaves out ticket_types.sort()
order_ticket_types_Unsorted(ticket_types) ==
    LET InTypes(t) == t \in Range(ticket_types)
        NotPreordered(t) == t \notin Range(PREORDERED_TYPES)
    IN  SelectSeq(PREORDERED_TYPES, InTypes) \o SelectSeq(ticket_types, NotPreordered)

order_ticket_types(ticket_types) ==
    LET sorted == StableSort(ticket_types, [i \in 1..Len(ticket_types) |-> LexRank(ticket_types[i])])
        InTypes(t) == t \in Range(sorted)
        NotPreordered(t) == t \notin Range(PREORDERED_TYPES)
    IN  SelectSeq(PREORDERED_TYPES, InTypes) \o SelectSeq(sorted, NotPreordered)

\* A price cell of the export: a currency glyph and a decimal number
RawPrice(glyph, pence) == [glyph |-> glyph, pence |-> pence]

\* A start date cell: the verbose date text, held by the day and the time it names
StartDate(day, time) == [day |-> day, time |-> time]

\* parse_date(booking_dict['Start date']).strftime('%d/%m/%y')
BookingDate(booking) == booking.Start_date.day

\* booking_dict['Product title']
BookingEvent(booking) == booking.Product_title

\* group_by_date / group_by_event: the bookings under each key, the keys in the
\* order of their first booking
group_by_date(bookings) ==
    LET keys == Dedup([i \in 1..Len(bookings) |-> BookingDate(bookings[i])])
    IN  [i \in 1..Len(keys) |->
            LET OfKey(b) == BookingDate(b) = keys[i]
            IN  [key |-> keys[i], bookings |-> SelectSeq(bookings, OfKey)]]

group_by_event(bookings) ==
    LET keys == Dedup([i \in 1..Len(bookings) |-> BookingEvent(bookings[i])])
    IN  [i \in 1..Len(keys) |->
            LET OfKey(b) == BookingEvent(b) = keys[i]
            IN  [key |-> keys[i], bookings |-> SelectSeq(bookings, OfKey)]]

\* group_bookings: by date, then by product title
group_bookings(bookings) ==
    LET by_date == group_by_date(bookings)
    IN  [i \in 1..Len(by_date) |->
            [date |-> by_date[i].key, events |-> group_by_event(by_date[i].bookings)]]

\* total_cost += ticket_qty * ticket_values.get(ticket_name, 0)
RECURSIVE calculate_ticket_value(_, _)
calculate_ticket_value(tickets, ticket_values) ==
    IF tickets = <<>> THEN 0
    ELSE Head(tickets).qty * DictGet(ticket_values, Head(tickets).name, 0)
         + calculate_ticket_value(Tail(tickets), ticket_values)

\* float(booking_dict['Product price'].replace('&pound;', '').replace(glyph, ''))
PriceIsNumber(raw) == raw.glyph \in {"", "&pound;", "pound sign"}

Max(a, b) == IF a >= b THEN a ELSE b

\* for ticket_name, ticket_qty, _ in tickets: d[ticket_name] += ticket_qty
RECURSIVE AddTicketQtys(_, _)
AddTicketQtys(d, tickets) ==
    IF tickets = <<>> THEN d
    ELSE AddTicketQtys(DictAdd(d, Head(tickets).name, Head(tickets).qty), Tail(tickets))

BookingSubTotal(full, reduced, value, saving, orders, types) ==
    [status |-> "ok",
     full_value_tickets |-> full,
     reduced_tickets |-> reduced,
     total_value |-> value,
     total_saving |-> saving,
     total_extra_cost |-> 0,
     total_orders |-> orders,
     ticket_types |-> types]

SubTotalRaised(exc) ==
    [status |-> exc,
     full_value_tickets |-> EmptyDict,
     reduced_tickets |-> EmptyDict,
     total_value |-> 0,
     total_saving |-> 0,
     total_extra_cost |-> 0,
     total_orders |-> 0,
     ticket_types |-> <<>>]

\* A variant of the saving of a booking that keeps a negative difference
BookingSaving_Signed(ticket_regular_rate, booking_price) ==
    ticket_regular_rate - booking_price

\* saving = max(0, ticket_regular_rate - booking_price): ignore negative savings
BookingSaving(ticket_regular_rate, booking_price) ==
    Max(0, ticket_regular_rate - booking_price)

\* The loop of subtotal_orders over the bookings of a group
RECURSIVE SubtotalLoop(_, _, _)
SubtotalLoop(bookings, ticket_values, acc) ==
    IF bookings = <<>> THEN acc
    ELSE LET booking == Head(bookings)
             parsed == parse_tickets(booking.Price_categories, booking)
         IN  IF parsed.status # "ok" THEN SubTotalRaised(parsed.status)
             ELSE IF ~PriceIsNumber(booking.Product_price) THEN SubTotalRaised("ValueError")
             ELSE LET tickets == parsed.tickets
                      ticket_regular_rate == calculate_ticket_value(tickets, ticket_values)
                      booking_price == booking.Product_price.pence
                      saving == BookingSaving(ticket_regular_rate, booking_price)
                      names == [i \in 1..Len(tickets) |-> tickets[i].name]
                  IN  SubtotalLoop(Tail(bookings), ticket_values,
                          [acc EXCEPT
                              !.total_value = @ + booking_price,
                              !.total_saving = @ + saving,
                              !.full_value_tickets =
                                  IF saving = 0 THEN AddTicketQtys(@, tickets) ELSE @,
                              !.reduced_tickets =
                                  IF saving = 0 THEN @ ELSE AddTicketQtys(@, tickets),
                              !.ticket_types = Dedup(@ \o names)])

subtotal_orders(bookings, ticket_values) ==
    LET acc == SubtotalLoop(bookings, ticket_values,
                   BookingSubTotal(EmptyDict, EmptyDict, 0, 0, Len(bookings), <<>>))
    IN  IF acc.status # "ok" THEN acc
        ELSE [acc EXCEPT !.ticket_types = order_ticket_types(@)]

\* event_prices = TICKET_PRICES.get(f"{date} {event}", {});
\* ticket_values = event_prices.get('event', STANDARD_PRICES)
EventTicketValues(prices, date, event) ==
    IF <<date, event>> \in DOMAIN prices THEN prices[<<date, event>>].event ELSE STANDARD_PRICES

\* prepare_ticket_breakdown: totals[date][event] = subtotal_orders(...)
prepare_ticket_breakdown(bookings, prices) ==
    LET grouped == group_bookings(bookings)
        dates == [i \in 1..Len(grouped) |->
                    [date |-> grouped[i].date,
                     events |-> [j \in 1..Len(grouped[i].events) |->
                         [event |-> grouped[i].events[j].key,
                          totals |-> subtotal_orders(grouped[i].events[j].bookings,
                                         EventTicketValues(prices, grouped[i].date,
                                                           grouped[i].events[j].key))]]]]
        failed == {<<i, j>> \in (1..Len(dates)) \X (1..MaxBookings + 1) :
                      j <= Len(dates[i].events) /\ dates[i].events[j].totals.status # "ok"}
    IN  IF failed = {} THEN [status |-> "ok", dates |-> dates]
        ELSE [status |-> "raised", dates |-> <<>>]

\* ticket_totals[ticket] += qty over the full-value map only
MergeEventTickets_FullOnly(ticket_totals, event_totals) ==
    LET full == event_totals.full_value_tickets
        keys == KeysOf(full)
    IN  AddTicketQtys(ticket_totals, [i \in 1..Len(keys) |-> [name |-> keys[i], qty |-> full[keys[i]]]])

\* for ticket, qty in full_value_tickets.items(): ticket_totals[ticket] += qty
\* for ticket, qty in reduced_tickets.items(): ticket_totals[ticket] += qty
MergeEventTickets(ticket_totals, event_totals) ==
    LET full == event_totals.full_value_tickets
        reduced == event_totals.reduced_tickets
        fkeys == KeysOf(full)
        rkeys == KeysOf(reduced)
    IN  AddTicketQtys(
            AddTicketQtys(ticket_totals,
                [i \in 1..Len(fkeys) |-> [name |-> fkeys[i], qty |-> full[fkeys[i]]]]),
            [i \in 1..Len(rkeys) |-> [name |-> rkeys[i], qty |-> reduced[rkeys[i]]]])

DayTotal(date, num_tickets, num_orders, total_cost, ticket_totals, ticket_types) ==
    [date |-> date,
     num_tickets |-> num_tickets,
     num_orders |-> num_orders,
     total_cost |-> total_cost,
     ticket_totals |-> ticket_totals,
     ticket_types |-> ticket_types]

\* The loop of generate_day_totals over the events of a date
RECURSIVE DayLoop(_, _)
DayLoop(events, acc) ==
    IF events = <<>> THEN acc
    ELSE LET event_totals == Head(events).totals
         IN  DayLoop(Tail(events),
                 [acc EXCEPT
                     !.num_tickets = @ + SumValues(event_totals.full_value_tickets)
                                       + SumValues(event_totals.reduced_tickets),
                     !.num_orders = @ + event_totals.total_orders,
                     !.total_cost = @ + event_totals.total_value,
                     !.ticket_totals = MergeEventTickets(@, event_totals)])

\* generate_day_totals: daily_totals[date], its ticket_totals keyed in the order
\* of order_ticket_types
generate_day_totals(breakdown) ==
    [i \in 1..Len(breakdown.dates) |->
        LET day == DayLoop(breakdown.dates[i].events,
                       DayTotal(breakdown.dates[i].date, 0, 0, 0, EmptyDict, <<>>))
        IN  [day EXCEPT !.ticket_types = order_ticket_types(KeysOf(day.ticket_totals))]]

\* The end of grand_total_orders without the merge of the family tickets
FoldFamilyChild_Omitted(total_types) == total_types

\* total_types['Child'] += total_types['Family Child']; del total_types['Family Child']
FoldFamilyChild(total_types) ==
    LET child == DictGet(total_types, "Child", 0) + DictGet(total_types, "Family Child", 0)
    IN  [t \in (DOMAIN total_types \cup {"Child"}) \ {"Family Child"} |->
            IF t = "Child" THEN child ELSE total_types[t]]

\* The events of a breakdown, date after date
RECURSIVE AllEvents(_)
AllEvents(dates) ==
    IF dates = <<>> THEN <<>> ELSE Head(dates).events \o AllEvents(Tail(dates))

GrandTotal(total_value, total_orders, total_tickets, total_types) ==
    [total_value |-> total_value,
     total_orders |-> total_orders,
     total_tickets |-> total_tickets,
     total_types |-> total_types]

\* The loop of grand_total_orders over the events of every date
RECURSIVE GrandLoop(_, _)
GrandLoop(events, acc) ==
    IF events = <<>> THEN acc
    ELSE LET event_bookings == Head(events).totals
         IN  GrandLoop(Tail(events),
                 [acc EXCEPT
                     !.total_value = @ + event_bookings.total_value,
                     !.total_orders = @ + event_bookings.total_orders,
                     !.total_tickets = @ + SumValues(event_bookings.full_value_tickets)
                                         + SumValues(event_bookings.reduced_tickets),
                     !.total_types = MergeEventTickets(@, event_bookings)])

grand_total_orders(breakdown) ==
    LET totals == GrandLoop(AllEvents(breakdown.dates), GrandTotal(0, 0, 0, EmptyDict))
    IN  [totals EXCEPT !.total_types = FoldFamilyChild(@)]

\* The dates, events and prices of the rows of the dataset
TotalDates == {"27/11/21", "04/12/21"}
TotalEvents == {"Santa Special", "Steam Sunday"}
TotalPrices == {RawPrice("&pound;", 900), RawPrice("pound sign", 2500)}

\* The price categories of the rows and the ages they come with
TotalTickets ==
    {[cats |-> <<TicketLine("Adult", 2, 900), TicketLine("Family Child", 1, 600)>>,
      ages |-> AbsentColumn],
     [cats |-> <<TicketLine("Adult", 1, 900), TicketLine("Child", 2, 700)>>,
      ages |-> Column(<<AgeEntry(1, "7 yrs old"), AgeEntry(2, "7 yrs old")>>)],
     [cats |-> <<TicketLine("Child", 1, 700)>>,
      ages |-> Column(<<AgeEntry(1, "0 to 1 yrs old")>>)]}

TotalBooking(date, event, price, tickets) ==
    Booking(tickets.cats, AccAbsent, AccAbsent, tickets.ages, Column(<<>>))
    @@ [Start_date |-> StartDate(date, "11:00"),
        Product_title |-> event,
        Product_price |-> price]

TotalBookings ==
    {TotalBooking(d, e, p, t) :
        d \in TotalDates, e \in TotalEvents, p \in TotalPrices, t \in TotalTickets}

\* The price tables the program is deployed with: none, or the prices of an event
PriceTables ==
    {EmptyDict,
     <<"27/11/21", "Santa Special">> :>
         [event |-> ("Adult" :> 1000) @@ ("Child" :> 800) @@ ("Family Child" :> 600)]}

NoBreakdown == [status |-> "none", dates |-> <<>>]

totInit ==
    /\ totBookings \in SeqsUpTo(TotalBookings, MaxBookings)
    /\ TICKET_PRICES \in PriceTables
    /\ totBreakdown = NoBreakdown
    /\ totDaily = <<>>
    /\ totGrand = GrandTotal(0, 0, 0, EmptyDict)
    /\ totDone = {}

totIdle ==
    /\ totBookings = <<>>
    /\ TICKET_PRICES = EmptyDict
    /\ totBreakdown = NoBreakdown
    /\ totDaily = <<>>
    /\ totGrand = GrandTotal(0, 0, 0, EmptyDict)
    /\ totDone = {"idle"}

\* The variables the aggregation engine does not touch
totOthers == <<pbVars, ptVars, tlVars, stVars, wkVars, siVars, adVars, otVars, flVars, cvVars, prVars, iaVars, bdVars, psVars, cfVars, ftVars>>

\* breakdown = prepare_ticket_breakdown(processed_bookings, labels)
PrepareTicketBreakdown ==
    /\ totDone = {}
    /\ totBreakdown' = prepare_ticket_breakdown(totBookings, TICKET_PRICES)
    /\ totDone' = {"breakdown"}
    /\ UNCHANGED <<totBookings, TICKET_PRICES, totDaily, totGrand>>
    /\ UNCHANGED totOthers

\* daily_totals = generate_day_totals(breakdown)
GenerateDayTotals ==
    /\ "breakdown" \in totDone
    /\ "daily" \notin totDone
    /\ totBreakdown.status = "ok"
    /\ totDaily' = generate_day_totals(totBreakdown)
    /\ totDone' = totDone \cup {"daily"}
    /\ UNCHANGED <<totBookings, TICKET_PRICES, totBreakdown, totGrand>>
    /\ UNCHANGED totOthers

\* totals = grand_total_orders(breakdown)
GrandTotalOrders ==
    /\ "breakdown" \in totDone
    /\ "grand" \notin totDone
    /\ totBreakdown.status = "ok"
    /\ totGrand' = grand_total_orders(totBreakdown)
    /\ totDone' = totDone \cup {"grand"}
    /\ UNCHANGED <<totBookings, TICKET_PRICES, totBreakdown, totDaily>>
    /\ UNCHANGED totOthers

totNext ==
    \/ PrepareTicketBreakdown
    \/ GenerateDayTotals
    \/ GrandTotalOrders

\* The ticket types of the datasets
AllTypes == <<"Adult", "Child", "Family Child", "Infant", "Senior">>

\* The positions of the rows of the dataset on a date, and of an event on a date
RowsOn(date) == {k \in 1..Len(totBookings) : BookingDate(totBookings[k]) = date}
RowsOf(date, event) == {k \in RowsOn(date) : BookingEvent(totBookings[k]) = event}

\* The quantity of a ticket type in the two maps of an event, and the types it holds
EventQty(totals, t) ==
    DictGet(totals.full_value_tickets, t, 0) + DictGet(totals.reduced_tickets, t, 0)
EventTypes(totals) == DOMAIN totals.full_value_tickets \cup DOMAIN totals.reduced_tickets

\* The (date, event) groups of the breakdown, by position
Groups ==
    {<<i, j>> \in (1..Len(totBreakdown.dates)) \X (1..MaxBookings + 1) :
        j <= Len(totBreakdown.dates[i].events)}

\* C2: once generate_day_totals has run, the total of every date is the sum of the
\* subtotals of the events of that date: the orders, the cost, the tickets and the
\* merged quantity (full value plus reduced) of every ticket type; and every row of
\* the dataset lies in exactly one (date, event) group of the breakdown.
C2_DayTotalsAreEventSums ==
    "daily" \in totDone =>
        /\ Len(totDaily) = Len(totBreakdown.dates)
        /\ \A i \in 1..Len(totDaily) :
            LET events == totBreakdown.dates[i].events
                day == totDaily[i]
                n == Len(events)
            IN  /\ day.date = totBreakdown.dates[i].date
                /\ day.num_orders = SumSeq([j \in 1..n |-> events[j].totals.total_orders])
                /\ day.total_cost = SumSeq([j \in 1..n |-> events[j].totals.total_value])
                /\ day.num_tickets =
                       SumSeq([j \in 1..n |->
                           SumSeq([t \in 1..Len(AllTypes) |->
                                      EventQty(events[j].totals, AllTypes[t])])])
                /\ DOMAIN day.ticket_totals =
                       UNION {EventTypes(events[j].totals) : j \in 1..n}
                /\ \A t \in DOMAIN day.ticket_totals :
                       day.ticket_totals[t] =
                           SumSeq([j \in 1..n |-> EventQty(events[j].totals, t)])
                /\ day.num_orders = Cardinality(RowsOn(day.date))
        /\ \A k \in 1..Len(totBookings) :
               Cardinality({g \in Groups :
                   /\ totBreakdown.dates[g[1]].date = BookingDate(totBookings[k])
                   /\ totBreakdown.dates[g[1]].events[g[2]].event
                          = BookingEvent(totBookings[k])}) = 1
        /\ \A g \in Groups :
               totBreakdown.dates[g[1]].events[g[2]].totals.total_orders =
                   Cardinality(RowsOf(totBreakdown.dates[g[1]].date,
                                      totBreakdown.dates[g[1]].events[g[2]].event))

\* A date with two events, one of them sold under the regular rate, has its total
C2_Witness ==
    /\ "daily" \in totDone
    /\ \E i \in 1..Len(totDaily) :
        /\ Len(totBreakdown.dates[i].events) = 2
        /\ totDaily[i].num_orders = 2
        /\ totBreakdown.dates[i].events[1].totals.reduced_tickets # EmptyDict
        /\ totBreakdown.dates[i].events[2].totals.full_value_tickets # EmptyDict
        /\ totDaily[i].num_tickets = 6

\* C3: once grand_total_orders has run, total_types holds no 'Family Child', its
\* 'Child' is the Child plus the Family Child tickets of all events, every other
\* type is its sum over all events, total_tickets is the sum of total_types; the
\* breakdown and the day totals still hold Family Child on its own.
C3_FamilyChildFolded ==
    "grand" \in totDone =>
        LET events == AllEvents(totBreakdown.dates)
            n == Len(events)
            types == totGrand.total_types
        IN  /\ "Family Child" \notin DOMAIN types
            /\ "Child" \in DOMAIN types
            /\ DictGet(types, "Child", 0) =
                   SumSeq([j \in 1..n |-> EventQty(events[j].totals, "Child")
                                          + EventQty(events[j].totals, "Family Child")])
            /\ \A t \in Range(AllTypes) \ {"Child", "Family Child"} :
                   /\ t \in DOMAIN types <=> \E j \in 1..n : t \in EventTypes(events[j].totals)
                   /\ DictGet(types, t, 0) =
                          SumSeq([j \in 1..n |-> EventQty(events[j].totals, t)])
            /\ DOMAIN types \subseteq Range(AllTypes)
            /\ totGrand.total_tickets =
                   SumSeq([t \in 1..Len(AllTypes) |-> DictGet(types, AllTypes[t], 0)])
            /\ totBreakdown = prepare_ticket_breakdown(totBookings, TICKET_PRICES)
            /\ "daily" \in totDone =>
                   \A i \in 1..Len(totDaily) :
                       LET day_events == totBreakdown.dates[i].events
                       IN  /\ "Family Child" \in DOMAIN totDaily[i].ticket_totals
                                <=> \E j \in 1..Len(day_events) :
                                        "Family Child" \in EventTypes(day_events[j].totals)
                           /\ DictGet(totDaily[i].ticket_totals, "Family Child", 0) =
                                  SumSeq([j \in 1..Len(day_events) |->
                                      EventQty(day_events[j].totals, "Family Child")])

\* The events {Adult: 2, Family Child: 1} and {Adult: 1, Child: 2} have the grand
\* total {Adult: 3, Child: 3}, the day total still holding the Family Child
C3_Witness ==
    /\ {"grand", "daily"} \subseteq totDone
    /\ LET events == AllEvents(totBreakdown.dates)
       IN  /\ Len(events) = 2
           /\ EventQty(events[1].totals, "Adult") = 2
           /\ EventQty(events[1].totals, "Family Child") = 1
           /\ EventQty(events[1].totals, "Child") = 0
           /\ EventQty(events[2].totals, "Adult") = 1
           /\ EventQty(events[2].totals, "Child") = 2
           /\ EventQty(events[2].totals, "Family Child") = 0
    /\ DictGet(totGrand.total_types, "Adult", 0) = 3
    /\ DictGet(totGrand.total_types, "Child", 0) = 3
    /\ totGrand.total_tickets = 6
    /\ \E i \in 1..Len(totDaily) : DictGet(totDaily[i].ticket_totals, "Family Child", 0) = 1

\* The ticket records of a row of the dataset, its regular rate under the unit
\* prices of its event, and the saving of the row
RowTickets(k) == parse_tickets(totBookings[k].Price_categories, totBookings[k]).tickets
RowRegularRate(k, ticket_values) ==
    SumSeq([r \in 1..Len(RowTickets(k)) |->
               RowTickets(k)[r].qty * DictGet(ticket_values, RowTickets(k)[r].name, 0)])
RowSaving(k, ticket_values) ==
    LET paid == totBookings[k].Product_price.pence
        rate == RowRegularRate(k, ticket_values)
    IN  IF rate > paid THEN rate - paid ELSE 0
RowQty(k, t) ==
    SumSeq([r \in 1..Len(RowTickets(k)) |->
               IF RowTickets(k)[r].name = t THEN RowTickets(k)[r].qty ELSE 0])

\* C14: in every (date, event) group of the breakdown, with the saving of a booking
\* max(0, regular rate - price paid): total_saving is the sum of the savings and is
\* never negative; for every ticket type full_value_tickets holds the tickets of the
\* bookings with zero saving and reduced_tickets those of the bookings with a
\* positive saving, so that the two add up to the quantity of the type in the group.
C14_SavingClassifiesTickets ==
    totBreakdown.status = "ok"
    => \A <<i, j>> \in Groups :
           LET date == totBreakdown.dates[i].date
               group == totBreakdown.dates[i].events[j]
               rows == RowsOf(date, group.event)
               values == EventTicketValues(TICKET_PRICES, date, group.event)
               full == {k \in rows : RowSaving(k, values) = 0}
               reduced == {k \in rows : RowSaving(k, values) > 0}
           IN  /\ group.totals.total_saving = SumValues([k \in rows |-> RowSaving(k, values)])
               /\ group.totals.total_saving >= 0
               /\ \A t \in Range(AllTypes) :
                      /\ DictGet(group.totals.full_value_tickets, t, 0)
                             = SumValues([k \in full |-> RowQty(k, t)])
                      /\ DictGet(group.totals.reduced_tickets, t, 0)
                             = SumValues([k \in reduced |-> RowQty(k, t)])
                      /\ EventQty(group.totals, t)
                             = SumValues([k \in rows |-> RowQty(k, t)])

\* A group of two bookings of the same tickets, one paid above the regular rate
\* and one below it: the Adult tickets of the one are full value, of the other reduced
C14_Witness ==
    /\ totBreakdown.status = "ok"
    /\ \E <<i, j>> \in Groups :
           LET group == totBreakdown.dates[i].events[j]
               rows == RowsOf(totBreakdown.dates[i].date, group.event)
           IN  /\ Cardinality(rows) = 2
               /\ \A k \in rows :
                      totBookings[k].Price_categories
                          = <<TicketLine("Adult", 1, 900), TicketLine("Child", 2, 700)>>
               /\ {totBookings[k].Product_price.pence : k \in rows} = {900, 2500}
               /\ \A tickets \in {group.totals.full_value_tickets, group.totals.reduced_tickets} :
                      DictGet(tickets, "Adult", 0) = 1 /\ DictGet(tickets, "Child", 0) = 2
               /\ group.totals.total_saving = 1400

-----------------------------------------------------------------------------
(* The tally layout: render_tally_data (ticket_sheets/tally.py and server.py) *)

\* Bound: the number of orders of the day
MaxOrders == 2

\* The least number of rows of the sheet
MinRows == 26

TrainLimit(train, limit) == [train |-> train, limit |-> limit]

\* server.py: the trains of the day and the spaces of each
train_times ==
    <<"10:30", "11:00", "11:30", "12:00", "12:30", "13:30",
      "14:00", "14:30", "15:00", "15:30", "16:00">>

train_spaces ==
    <<TrainLimit("10:30", 15), TrainLimit("11:00", 20), TrainLimit("11:30", 20),
      TrainLimit("12:00", 20), TrainLimit("12:30", 15), TrainLimit("13:30", 20),
      TrainLimit("14:00", 20), TrainLimit("14:30", 20), TrainLimit("15:00", 20),
      TrainLimit("15:30", 20), TrainLimit("16:00", 10)>>

\* data_config.train_limits of the deployments, in key order
TrainLimitConfigs ==
    {<<TrainLimit("10:30", 15), TrainLimit("16:00", 10)>>,
     <<TrainLimit("10:30", 1), TrainLimit("16:00", 26)>>,
     <<TrainLimit("10:30", 27), TrainLimit("16:00", 10)>>}

\* An order of the day: its id, its train and its presents
TallyOrder(order_id, train, presents) ==
    [order_id |-> order_id, train |-> train, presents |-> presents, needs_codes |-> ""]

\* The present codes of an order of n children
Presents(n) == [i \in 1..n |-> "B3"]

TallyTrains == {"10:30", "16:00", "17:00"}
PresentCounts == {0, 1, 10, 11, 27}

\* The orders of a day, numbered in order
TallyDays ==
    {[i \in 1..Len(ts) |-> TallyOrder(10000 + i, ts[i], Presents(ns[i]))] :
        <<ts, ns>> \in {p \in SeqsUpTo(TallyTrains, MaxOrders) \X SeqsUpTo(PresentCounts, MaxOrders) :
                          Len(p[1]) = Len(p[2])}}

\* The row of the mark of a limit, one too low
LimitRow_OffByOne(limit) == limit + 1

\* tally.py: .loc[limit, train]; server.py: data[spaces - 1][column]
\* (rows are numbered from 1 here)
LimitRow(limit) == limit

TallyGrid(status, data, columns) == [status |-> status, data |-> data, columns |-> columns]

\* ---- ticket_sheets/tally.py ----

\* generate_tally_data: "Remove orders with no presents"
HasPresents(order) == Len(order.presents) > 0
generate_tally_data(orders) == SelectSeq(orders, HasPresents)

\* format_presents
format_presents(row) ==
    [i \in 1..Len(row.presents) |->
        [present |-> row.presents[i],
         end_family |-> (i = Len(row.presents)),
         train_limit |-> FALSE,
         order_id |-> row.order_id,
         needs_codes |-> row.needs_codes]]

\* explode, cumcount and pivot: the presents of a train, numbered down its column
RECURSIVE TrainColumn(_, _)
TrainColumn(data, train) ==
    IF data = <<>> THEN <<>>
    ELSE (IF Head(data).train = train THEN format_presents(Head(data)) ELSE <<>>)
         \o TrainColumn(Tail(data), train)

default_cell_value ==
    [present |-> "", end_family |-> FALSE, train_limit |-> FALSE,
     order_id |-> "", needs_codes |-> ""]

MaxLimit(train_limits) ==
    CHOOSE m \in {train_limits[i].limit : i \in 1..Len(train_limits)} :
        \A i \in 1..Len(train_limits) : train_limits[i].limit <= m

render_tally_data(data, train_limits) ==
    LET columns == [c \in 1..Len(train_limits) |-> train_limits[c].train]
        num_rows == Max(MaxLimit(train_limits) + 1, MinRows)
        filled == [r \in 1..num_rows |-> [c \in 1..Len(columns) |->
                      LET cells == TrainColumn(data, columns[c])
                      IN  IF r <= Len(cells) THEN cells[r] ELSE default_cell_value]]
    IN  TallyGrid("ok",
            [r \in 1..num_rows |-> [c \in 1..Len(columns) |->
                IF r = LimitRow(train_limits[c].limit)
                THEN [filled[r][c] EXCEPT !.train_limit = TRUE]
                ELSE filled[r][c]]],
            columns)

\* What render_tally_data can do with the orders of a day: with no order left,
\* whether the assignment of the applied frame to a column succeeds is not
\* settled by the code
RenderOutcomes(data, train_limits) ==
    IF data = <<>>
    THEN {render_tally_data(data, train_limits), TallyGrid("ValueError", <<>>, <<>>)}
    ELSE {render_tally_data(data, train_limits)}

\* ---- server.py ----

\* The number of rows of the sheet of server.py
ServerRows == 26

\* generate_tally_data: tally_data[date][train], the trains in the order of their
\* first order
server_generate_tally_data(orders) ==
    LET trains == Dedup([i \in 1..Len(orders) |-> orders[i].train])
    IN  [t \in 1..Len(trains) |->
            LET OnTrain(o) == o.train = trains[t]
            IN  [train |-> trains[t], orders |-> SelectSeq(orders, OnTrain)]]

ServerCell(present, order_id) ==
    [present |-> present, end_family |-> FALSE, train_limit |-> FALSE, order_id |-> order_id]

\* The locals of render_tally_data: row and column are 0 as long as unbound,
\* rows and columns are numbered from 1
RenderLocals(status, data, row_counter, row, column) ==
    [status |-> status, data |-> data, row_counter |-> row_counter,
     row |-> row, column |-> column]

\* for present in presents: ...
RECURSIVE PlacePresents(_, _, _)
PlacePresents(presents, order, acc) ==
    IF acc.status # "ok" \/ presents = <<>> THEN acc
    ELSE IF order.train \notin Range(train_times) THEN [acc EXCEPT !.status = "KeyError"]
    ELSE LET row == acc.row_counter[order.train] + 1
             column == IndexOf(train_times, order.train)
         IN  IF row > ServerRows
             THEN [acc EXCEPT !.status = "IndexError", !.row = row, !.column = column]
             ELSE PlacePresents(Tail(presents), order,
                      [acc EXCEPT
                          !.data[row][column] = ServerCell(Head(presents), order.order_id),
                          !.row_counter[order.train] = @ + 1,
                          !.row = row,
                          !.column = column])

\* for order_id, presents, _ in orders: ...; data[row][column]['end_family'] = True
RECURSIVE PlaceOrders(_, _)
PlaceOrders(orders, acc) ==
    IF acc.status # "ok" \/ orders = <<>> THEN acc
    ELSE LET placed == PlacePresents(Head(orders).presents, Head(orders), acc)
         IN  IF placed.status # "ok" THEN placed
             ELSE IF placed.row = 0 THEN [placed EXCEPT !.status = "UnboundLocalError"]
             ELSE PlaceOrders(Tail(orders),
                      [placed EXCEPT !.data[placed.row][placed.column].end_family = TRUE])

\* for train, orders in tally_data.items(): ...
RECURSIVE PlaceTrains(_, _)
PlaceTrains(tally_data, acc) ==
    IF acc.status # "ok" \/ tally_data = <<>> THEN acc
    ELSE PlaceTrains(Tail(tally_data), PlaceOrders(Head(tally_data).orders, acc))

server_render_tally_data(tally_data) ==
    LET empty == [r \in 1..ServerRows |-> [c \in 1..Len(train_times) |-> ServerCell("", "")]]
        placed == PlaceTrains(tally_data,
                      RenderLocals("ok", empty, [t \in Range(train_times) |-> 0], 0, 0))
    IN  IF placed.status # "ok" THEN TallyGrid(placed.status, <<>>, <<>>)
        ELSE TallyGrid("ok",
                 [r \in 1..ServerRows |-> [c \in 1..Len(train_times) |->
                     IF r = LimitRow(train_spaces[c].limit)
                     THEN [placed.data[r][c] EXCEPT !.train_limit = TRUE]
                     ELSE placed.data[r][c]]],
                 train_times)

NoGrid == TallyGrid("none", <<>>, <<>>)

tlInit ==
    /\ tlOrders \in TallyDays
    /\ tlLimits \in TrainLimitConfigs
    /\ tlGrid = NoGrid
    /\ tlBy = "none"

tlIdle ==
    /\ tlOrders = <<>>
    /\ tlLimits = <<>>
    /\ tlGrid = NoGrid
    /\ tlBy = "idle"

\* The variables the tally layout does not touch
tlOthers == <<pbVars, ptVars, totVars, stVars, wkVars, siVars, adVars, otVars, flVars, cvVars, prVars, iaVars, bdVars, psVars, cfVars, ftVars>>

\* new_server.tally_sheet: render_tally_data(tally_data_df, table_configs.train_limits)
RenderTallyData ==
    /\ tlBy = "none"
    /\ tlGrid' \in RenderOutcomes(generate_tally_data(tlOrders), tlLimits)
    /\ tlBy' = "tally"
    /\ UNCHANGED <<tlOrders, tlLimits>>
    /\ UNCHANGED tlOthers

\* server.tally: render_tally_data(raw_tally_data)
ServerRenderTallyData ==
    /\ tlBy = "none"
    /\ tlGrid' = server_render_tally_data(server_generate_tally_data(tlOrders))
    /\ tlBy' = "server"
    /\ UNCHANGED <<tlOrders, tlLimits>>
    /\ UNCHANGED tlOthers

tlNext ==
    \/ RenderTallyData
    \/ ServerRenderTallyData

\* The limits the grid was rendered with, column by column
GridLimits == IF tlBy = "server" THEN train_spaces ELSE tlLimits

\* The number of presents of the day on a train
PresentsOn(train) ==
    SumSeq([i \in 1..Len(tlOrders) |->
               IF tlOrders[i].train = train THEN Len(tlOrders[i].presents) ELSE 0])

\* C4: in a grid render_tally_data returned, the column of every configured train
\* has train_limit set in the row of its limit L (rows counted from 1) and in no
\* other row, whatever the number of presents of that train.
C4_LimitMarkAtRowL ==
    tlGrid.status = "ok" =>
        /\ Len(tlGrid.columns) = Len(GridLimits)
        /\ \A c \in 1..Len(GridLimits) :
            /\ tlGrid.columns[c] = GridLimits[c].train
            /\ GridLimits[c].limit \in 1..Len(tlGrid.data)
            /\ \A r \in 1..Len(tlGrid.data) :
                   tlGrid.data[r][c].train_limit <=> (r = GridLimits[c].limit)

\* A grid with a train over its limit, a train under it and a train with no present
C4_Witness ==
    /\ tlGrid.status = "ok"
    /\ tlBy = "server"
    /\ PresentsOn("16:00") = 11
    /\ PresentsOn("10:30") = 1
    /\ tlGrid.data[10][11].train_limit
    /\ tlGrid.data[10][11].present = "B3"
    /\ tlGrid.data[11][11].present = "B3"
    /\ tlGrid.data[15][1].present = ""
    /\ tlGrid.data[15][1].train_limit
    /\ tlGrid.data[20][2].train_limit

\* The orders of the day on a train, and the order a slot of the train belongs to
\* when the presents of the orders are numbered 1, 2, ... in the order of the orders
OrdersOnTrain(train) == SelectSeq(tlOrders, LAMBDA o : o.train = train)
SlotsBefore(orders, i) == SumSeq([k \in 1..(i - 1) |-> Len(orders[k].presents)])
SlotOwner(train, slot) ==
    LET orders == OrdersOnTrain(train)
    IN  orders[CHOOSE i \in 1..Len(orders) :
                   SlotsBefore(orders, i) < slot
                   /\ slot <= SlotsBefore(orders, i) + Len(orders[i].presents)]

\* The trains the grid has a column for
ConfiguredTrains == {GridLimits[c].train : c \in 1..Len(GridLimits)}

\* C23: once the tally of a day with a present on a configured train is rendered,
\* the grid is returned and every present of a configured train is in the column
\* of its train at the row of its slot number, also past the limit of the train
\* and past the rows of the sheet.
C23_EveryPresentHasItsCell ==
    (/\ tlBy \in {"tally", "server"}
     /\ \E train \in ConfiguredTrains : PresentsOn(train) > 0)
    => /\ tlGrid.status = "ok"
       /\ \A c \in 1..Len(tlGrid.columns) :
              \A slot \in 1..PresentsOn(tlGrid.columns[c]) :
                  /\ slot <= Len(tlGrid.data)
                  /\ tlGrid.data[slot][c].present = "B3"
                  /\ tlGrid.data[slot][c].order_id = SlotOwner(tlGrid.columns[c], slot).order_id

\* C24: in every column of the grid the presents of an order stand in consecutive
\* slots, the orders in ascending order id, and end_family is set on the last
\* present of every order of the train and on no other cell: the column has as
\* many end_family cells as the train has orders with a present; an order with
\* no present marks no cell and the grid is still returned.
C24_EndFamilyOnLastPresent ==
    (/\ tlBy \in {"tally", "server"}
     /\ \E train \in ConfiguredTrains : PresentsOn(train) > 0)
    => /\ tlGrid.status = "ok"
       /\ \A c \in 1..Len(tlGrid.columns) :
              LET train == tlGrid.columns[c]
                  orders == OrdersOnTrain(train)
                  LastSlots == {SlotsBefore(orders, i) + Len(orders[i].presents) :
                                   i \in {k \in 1..Len(orders) : Len(orders[k].presents) > 0}}
              IN  /\ \A r \in 1..Len(tlGrid.data) :
                         tlGrid.data[r][c].end_family <=> r \in LastSlots
                  /\ Cardinality({r \in 1..Len(tlGrid.data) : tlGrid.data[r][c].end_family})
                         = Cardinality({i \in 1..Len(orders) : Len(orders[i].presents) > 0})
                  /\ \A r, s \in 1..Len(tlGrid.data) :
                         (r < s /\ tlGrid.data[r][c].present # "" /\ tlGrid.data[s][c].present # "")
                         => tlGrid.data[r][c].order_id <= tlGrid.data[s][c].order_id

-----------------------------------------------------------------------------
(* The sort engine: format_for_table (ticket_sheets/parse_data.py) and       *)
(* sort_bookings (parse_ticket_sheet.py)                                    *)

\* Bound: the number of rows of the listing
MaxRows == 3

\* Names, as character codes: "a", "A", "B", "ab"
CustomerNames == {<<97>>, <<65>>, <<66>>, <<97, 98>>}

\* str.lower kept as it is: no case folding
Lower_Identity(name) == name

\* str.lower: the capital letters to small letters
Lower(name) == [i \in 1..Len(name) |-> IF name[i] \in 65..90 THEN name[i] + 32 ELSE name[i]]

\* a < b for strings: by the code of the first character that differs, a proper
\* prefix first
LexLess(a, b) ==
    \E i \in 1..Len(b) :
        /\ i - 1 <= Len(a)
        /\ \A j \in 1..(i - 1) : a[j] = b[j]
        /\ \/ i = Len(a) + 1
           \/ i <= Len(a) /\ a[i] < b[i]

\* alpha_config.sorts; column_sorts of the alphabetical listing
alpha_sorts == <<"first_name", "last_name">>

\* A row of the listing: its place in the export and the names of the customer
Row(id, first, last) == [id |-> id, first_name |-> first, last_name |-> last]

Listings ==
    {[i \in 1..Len(names) |-> Row(i, names[i][1], names[i][2])] :
        names \in SeqsUpTo(CustomerNames \X CustomerNames, MaxRows)}

\* data.sort_values(column, key=lambda x: x.str.lower(), kind="stable");
\* bookings.sort(key=lambda x: x[sort_index].lower())
sort_values(data, column) ==
    LET keys == [i \in 1..Len(data) |-> Lower(data[i][column])]
        ranks == [i \in 1..Len(data) |->
                     Cardinality({k \in Range(keys) : LexLess(k, keys[i])})]
    IN  StableSort(data, ranks)

\* for sort_config in config.sorts: data.sort_values(...)
RECURSIVE ApplySorts(_, _)
ApplySorts(data, sorts) ==
    IF sorts = <<>> THEN data
    ELSE ApplySorts(sort_values(data, Head(sorts)), Tail(sorts))

stInit ==
    /\ stRows \in Listings
    /\ stTable = stRows
    /\ stPrev = <<>>
    /\ stRuns = 0

stIdle ==
    /\ stRows = <<>>
    /\ stTable = <<>>
    /\ stPrev = <<>>
    /\ stRuns = -1

\* The variables the sort engine does not touch
stOthers == <<pbVars, ptVars, totVars, tlVars, wkVars, siVars, adVars, otVars, flVars, cvVars, prVars, iaVars, bdVars, psVars, cfVars, ftVars>>

\* Bound: the number of times the listing is sorted
MaxRuns == 2

\* new_server: format_for_table(parsed_bookings, table_configs.alpha_config)
FormatForTable ==
    /\ stRuns \in 0..(MaxRuns - 1)
    /\ stPrev' = stTable
    /\ stTable' = ApplySorts(stTable, alpha_sorts)
    /\ stRuns' = stRuns + 1
    /\ UNCHANGED stRows
    /\ UNCHANGED stOthers

\* server: sort_bookings(raw_data[1:], labels) under the alphabetical column_sorts
SortBookings ==
    /\ stRuns \in 0..(MaxRuns - 1)
    /\ stPrev' = stTable
    /\ stTable' = ApplySorts(stTable, alpha_sorts)
    /\ stRuns' = stRuns + 1
    /\ UNCHANGED stRows
    /\ UNCHANGED stOthers

stNext ==
    \/ FormatForTable
    \/ SortBookings

\* A name without regard to the case of its letters (in capitals)
Caseless(name) ==
    [i \in 1..Len(name) |-> IF name[i] \in 97..122 THEN name[i] - 32 ELSE name[i]]

\* Row a comes before row b in the alphabetical listing: by last name, then by
\* first name, both without regard to case, then by the place in the export
AlphaBefore(a, b) ==
    LET la == Caseless(a.last_name)
        lb == Caseless(b.last_name)
        fa == Caseless(a.first_name)
        fb == Caseless(b.first_name)
    IN  \/ LexLess(la, lb)
        \/ la = lb /\ LexLess(fa, fb)
        \/ la = lb /\ fa = fb /\ a.id < b.id

\* C7: the sorted listing holds the rows of the export ordered by last name, rows
\* of equal last name by first name, both without regard to case, the remaining
\* ties in the order of the export; sorting the sorted listing again leaves it as
\* it is.
C7_AlphabeticalOrder ==
    stRuns >= 1 =>
        /\ Len(stTable) = Len(stRows)
        /\ Range(stTable) = Range(stRows)
        /\ \A i, j \in 1..Len(stTable) : i < j => AlphaBefore(stTable[i], stTable[j])
        /\ stRuns >= 2 => stTable = stPrev

\* A listing sorted twice whose order by character code is not its order without
\* regard to case, by last name and, within a last name, by first name
C7_Witness ==
    /\ stRuns = 2
    /\ stTable # stRows
    /\ \E i, j \in 1..Len(stTable) :
        /\ i < j
        /\ stTable[i].last_name = <<97, 98>>
        /\ stTable[j].last_name = <<66>>
    /\ \E i, j \in 1..Len(stTable) :
        /\ i < j
        /\ stTable[i].last_name = stTable[j].last_name
        /\ stTable[i].first_name = <<97>>
        /\ stTable[j].first_name = <<66>>
        /\ stTable[i].id > stTable[j].id

-----------------------------------------------------------------------------
(* The walk-in price: calculate_walkin_price (parse_ticket_sheet.py)        *)

\* tidy_price: value.replace('&pound;', '').replace(glyph, '')
tidy_price(value) ==
    [value EXCEPT !.glyph = IF @ \in {"&pound;", "pound sign"} THEN "" ELSE @]

\* float(text) succeeds: nothing but the decimal number is left
IsFloat(value) == value.glyph = ""

\* f"{x:.2f}": the sign, the pounds and the two digits of the pence
Format2f(pence) ==
    LET abs == IF pence < 0 THEN 0 - pence ELSE pence
    IN  [negative |-> pence < 0, pounds |-> abs \div 100, pence |-> abs % 100]

\* A start date cell that date_sort_item cannot parse
MalformedDate == StartDate("", "")

\* date.split('/')[1] of a '%d/%m/%y' date
MonthOf(date) ==
    CASE date = "27/11/21" -> "11"
      [] date = "04/12/21" -> "12"
      [] OTHER -> "?"

\* ticket_fields[0][:-1]: the first field without its last character
DropLastChar(tok) ==
    CASE tok.k = "wordc" -> tok.s
      [] tok.k = "word" /\ tok.s = "Family" -> "Famil"
      [] tok.k = "word" /\ tok.s = "Adult" -> "Adul"
      [] OTHER -> "?"

\* infant_price = 6.0 if '11' == date.split('/')[1] else 7.0
InfantPrice(month) == IF month = "11" THEN 600 ELSE 700

WalkinSum(status, pence) == [status |-> status, pence |-> pence]

\* for ticket in booking['Price categories'].splitlines(): ...
RECURSIVE WalkinLines(_, _, _)
WalkinLines(lines, prices, walkin_price) ==
    IF lines = <<>> THEN WalkinSum("ok", walkin_price)
    ELSE LET ticket_fields == Head(lines)
         IN  IF Len(ticket_fields) < 2 THEN WalkinSum("IndexError", 0)
             ELSE IF ~IsInt(ticket_fields[2]) THEN WalkinSum("ValueError", 0)
             ELSE WalkinLines(Tail(lines), prices,
                      walkin_price
                      + DictGet(prices, DropLastChar(ticket_fields[1]), 0) * ticket_fields[2].n)

\* booking.get('Child Age (Non-internet)', '').count('to')
WalkinInfants(booking) ==
    IF ~booking.Child_Age_Non_internet.present THEN 0
    ELSE SumSeq([i \in 1..Len(booking.Child_Age_Non_internet.entries) |->
                    Occurrences("to", booking.Child_Age_Non_internet.entries[i].age)])

\* try: walkin_price += int(booking.get(extra, 0)) * prices.get(ticket, 0.0)
\* except ValueError: pass
WalkinExtra(acc, prices, ticket) ==
    IF acc.kind = "text" /\ acc.glyphs = 0 THEN acc.n * DictGet(prices, ticket, 0) ELSE 0

\* The try block of calculate_walkin_price
WalkinRecompute(booking, ticket_prices) ==
    IF booking.Start_date = MalformedDate THEN WalkinSum("ValueError", 0)
    ELSE LET date == booking.Start_date.day
             event == booking.Product_title
             prices == IF <<date, event>> \in DOMAIN ticket_prices
                       THEN ticket_prices[<<date, event>>].event
                       ELSE EmptyDict
             lines == WalkinLines(booking.Price_categories, prices, 0)
         IN  IF lines.status # "ok" THEN lines
             ELSE WalkinSum("ok",
                      lines.pence
                      - InfantPrice(MonthOf(date)) * WalkinInfants(booking)
                      + WalkinExtra(booking.Accompanying_Adult, prices, "Adult")
                      + WalkinExtra(booking.Accompanying_Senior, prices, "Senior"))

WalkinResult(status, price, walkin) == [status |-> status, price |-> price, walkin |-> walkin]

calculate_walkin_price(value, booking, ticket_prices) ==
    IF ~IsFloat(tidy_price(value)) THEN WalkinResult("ValueError", Format2f(0), FALSE)
    ELSE LET value_clean == tidy_price(value).pence
         IN  IF value_clean = 0
             THEN LET walkin == WalkinRecompute(booking, ticket_prices)
                  IN  IF walkin.status = "ok"
                      THEN WalkinResult("ok", Format2f(walkin.pence), TRUE)
                      ELSE WalkinResult("ok", Format2f(value_clean), TRUE)
             ELSE WalkinResult("ok", Format2f(value_clean), FALSE)

\* The rows calculate_walkin_price is given
WalkinLineSet ==
    {TicketLine("Adult", 1, 900), TicketLine("Child", 2, 700),
     TicketLine("Family Child", 1, 600),
     <<WordC("Adult")>>, <<WordC("Adult"), Junk, Price(900)>>}

WalkinBooking(price, date, event, cats, ages, accAdult, accSenior) ==
    [Product_price |-> price,
     Start_date |-> date,
     Product_title |-> event,
     Price_categories |-> cats,
     Child_Age_Non_internet |-> ages,
     Accompanying_Adult |-> accAdult,
     Accompanying_Senior |-> accSenior]

WalkinBookings ==
    {WalkinBooking(p, d, e, cats, ages, aa, as) :
        p \in {RawPrice("&pound;", 0), RawPrice("&pound;", 900), RawPrice("n/a", 0)},
        d \in {StartDate("27/11/21", "11:00"), StartDate("04/12/21", "11:00"), MalformedDate},
        e \in {"Santa Special", "Steam Sunday"},
        cats \in SeqsUpTo(WalkinLineSet, MaxLines),
        ages \in {AbsentColumn, Column(<<AgeEntry(1, "7 yrs old")>>),
                  Column(<<AgeEntry(1, "0 to 1 yrs old")>>),
                  Column(<<AgeEntry(1, "0 to 1 yrs old"), AgeEntry(2, "1 to 2 yrs old")>>)},
        aa \in {AccAbsent, AccText(2, 900), AccBare(1)},
        as \in {AccAbsent, AccBare(1)}}

\* The price tables loaded by load_ticket_prices
WalkinPriceTables ==
    {EmptyDict,
     (<<"27/11/21", "Santa Special">> :>
         [event |-> ("Adult" :> 900) @@ ("Senior" :> 800) @@ ("Child" :> 700)])
     @@ (<<"04/12/21", "Santa Special">> :>
         [event |-> ("Adult" :> 1000) @@ ("Senior" :> 900) @@ ("Child" :> 800)])}

NoWalkin == WalkinResult("none", Format2f(0), FALSE)

wkInit ==
    /\ wkBooking \in WalkinBookings
    /\ wkTicketPrices \in WalkinPriceTables
    /\ wkResult = NoWalkin

wkIdle ==
    /\ wkBooking = WalkinBooking(RawPrice("", 0), MalformedDate, "", <<>>,
                                 AbsentColumn, AccAbsent, AccAbsent)
    /\ wkTicketPrices = EmptyDict
    /\ wkResult = WalkinResult("idle", Format2f(0), FALSE)

\* The variables calculate_walkin_price does not touch
wkOthers == <<pbVars, ptVars, totVars, tlVars, stVars, siVars, adVars, otVars, flVars, cvVars, prVars, iaVars, bdVars, psVars, cfVars, ftVars>>

\* calculate_walkin_price(booking['Product price'], booking)
CalculateWalkinPrice ==
    /\ wkResult = NoWalkin
    /\ wkResult' = calculate_walkin_price(wkBooking.Product_price, wkBooking, wkTicketPrices)
    /\ UNCHANGED <<wkBooking, wkTicketPrices>>
    /\ UNCHANGED wkOthers

wkNext == CalculateWalkinPrice

\* calculate_walkin_price has been called on the booking
WalkinDone == wkResult.status \notin {"none", "idle"}

\* The raw price of the booking is the number zero
ZeroPriced == IsFloat(tidy_price(wkBooking.Product_price)) /\ wkBooking.Product_price.pence = 0

\* The price table has an entry for the date and the product title of the booking
HasPriceEntry ==
    /\ wkBooking.Start_date # MalformedDate
    /\ <<wkBooking.Start_date.day, wkBooking.Product_title>> \in DOMAIN wkTicketPrices

\* The count of an accompanying cell, "<n>" or "<n>#<v>"
AccompanyingCount(acc) == IF acc.kind = "text" THEN acc.n ELSE 0

\* The price of the walk-in order by the price table entry: the tickets of the
\* lines, less the discount of the infants, plus the accompanying adults and seniors
ExpectedWalkinPrice ==
    LET prices == wkTicketPrices[<<wkBooking.Start_date.day, wkBooking.Product_title>>].event
        cats == wkBooking.Price_categories
    IN  SumSeq([i \in 1..Len(cats) |->
                   DictGet(prices, NameBeforeColon(cats[i]), 0) * FieldsAfterColon(cats[i])[1].n])
        - (IF MonthOf(wkBooking.Start_date.day) = "11" THEN 600 ELSE 700) * WalkinInfants(wkBooking)
        + AccompanyingCount(wkBooking.Accompanying_Adult) * DictGet(prices, "Adult", 0)
        + AccompanyingCount(wkBooking.Accompanying_Senior) * DictGet(prices, "Senior", 0)

\* C8: for a booking of raw price zero with an entry in the price table,
\* calculate_walkin_price returns the tickets of the lines at the prices of the
\* entry, less the discount of every infant (6 in November, 7 otherwise), plus the
\* accompanying adults at the Adult price and the accompanying seniors at the
\* Senior price; for a raw price that is not zero it returns the raw price and
\* does not flag the booking.
C8_WalkinPriceFormula ==
    WalkinDone =>
        /\ (/\ ZeroPriced
            /\ HasPriceEntry
            /\ \A i \in 1..Len(wkBooking.Price_categories) :
                   IsTicketLine(wkBooking.Price_categories[i]))
           => /\ wkResult.status = "ok"
              /\ wkResult.price = Format2f(ExpectedWalkinPrice)
        /\ (IsFloat(tidy_price(wkBooking.Product_price)) /\ ~ZeroPriced)
           => /\ wkResult.status = "ok"
              /\ wkResult.price = Format2f(wkBooking.Product_price.pence)
              /\ ~wkResult.walkin

\* C9: calculate_walkin_price never raises; for a booking of raw price zero whose
\* recomputation fails (no entry in the price table, a malformed line, a malformed
\* date) it returns "0.00" and flags the booking; the price it returns is never
\* negative.
C9_WalkinFallsBackToZero ==
    WalkinDone =>
        /\ wkResult.status = "ok"
        /\ ~wkResult.price.negative
        /\ (/\ ZeroPriced
            /\ \/ ~HasPriceEntry
               \/ \E i \in 1..Len(wkBooking.Price_categories) :
                      ~IsTicketLine(wkBooking.Price_categories[i]))
           => /\ wkResult.price = Format2f(0)
              /\ wkResult.walkin

-----------------------------------------------------------------------------
(* The child/infant split: split_infant_presents and extract_tickets        *)
(* (ticket_sheets/conversions.py)                                           *)

\* Bound: the number of rows of the dataset
MaxDataRows == 2

\* Bound: the number of times split_infant_presents is applied
MaxSplits == 2

\* The present codes of extract_present_details: gender and age, "U1" under one
PresentCodes == {"B7", "G10", "B1", "BU1", "GU1", "?U1"}

\* len(present)
PresentLen(present) == IF present \in {"B7", "B1"} THEN 2 ELSE 3

\* present[1], the second character
PresentSecondChar(present) ==
    CASE present \in {"BU1", "GU1", "?U1"} -> "U"
      [] present \in {"G10", "B1"} -> "1"
      [] OTHER -> "7"

\* _categorise_presents
_categorise_presents(presents) ==
    LET IsInfant(present) == PresentLen(present) = 3 /\ PresentSecondChar(present) = "U"
        infant_presents == SelectSeq(presents, IsInfant)
        NotInfant(present) == present \notin Range(infant_presents)
        child_presents == SelectSeq(presents, NotInfant)
    IN  [child_count |-> Len(child_presents), infant_count |-> Len(infant_presents)]

\* ticket_line.startswith(f"{ticket_name}:")
StartsWithName(ticket_line, ticket_name) ==
    Len(ticket_line) >= 1 /\ ticket_line[1] = WordC(ticket_name)

\* _update_tickets that adds the line without looking for one to replace
_update_tickets_Append(ticket_lines, ticket_name, new_val) ==
    Append(ticket_lines, <<WordC(ticket_name), Num(new_val)>>)

\* _update_tickets: the first line of the ticket becomes f"{ticket_name}: {new_val}";
\* with no such line, the line is added
_update_tickets(ticket_lines, ticket_name, new_val) ==
    IF \E idx \in 1..Len(ticket_lines) : StartsWithName(ticket_lines[idx], ticket_name)
    THEN LET idx == CHOOSE i \in 1..Len(ticket_lines) :
                        /\ StartsWithName(ticket_lines[i], ticket_name)
                        /\ \A j \in 1..(i - 1) : ~StartsWithName(ticket_lines[j], ticket_name)
         IN  [ticket_lines EXCEPT ![idx] = <<WordC(ticket_name), Num(new_val)>>]
    ELSE Append(ticket_lines, <<WordC(ticket_name), Num(new_val)>>)

\* split_infant_present, row by row
split_infant_present(row) ==
    LET present_counts == _categorise_presents(row.Present_Type_formatted)
        with_child == _update_tickets(row.Price_categories, "Child", present_counts.child_count)
    IN  [row EXCEPT !.Price_categories =
            IF present_counts.infant_count # 0
            THEN _update_tickets(with_child, "Infant", present_counts.infant_count)
            ELSE with_child]

\* split_infant_presents: skipped when the dataset has no present column
split_infant_presents(data, has_present_col) ==
    IF ~has_present_col THEN data
    ELSE [i \in 1..Len(data) |-> split_infant_present(data[i])]

\* extract_ticket: the quantity of every ticket type of a row
RECURSIVE extract_ticket(_, _)
extract_ticket(ticket_fields, tickets) ==
    IF ticket_fields = <<>> THEN [status |-> "ok", tickets |-> tickets]
    ELSE LET field == Head(ticket_fields)
         IN  IF CountColons(field) # 1 THEN [status |-> "ValueError", tickets |-> EmptyDict]
             ELSE IF FieldsAfterColon(field) = <<>>
                  THEN [status |-> "IndexError", tickets |-> EmptyDict]
             ELSE IF ~IsInt(FieldsAfterColon(field)[1])
                  THEN [status |-> "ValueError", tickets |-> EmptyDict]
             ELSE extract_ticket(Tail(ticket_fields),
                      DictAdd(tickets, NameBeforeColon(field), FieldsAfterColon(field)[1].n))

\* extract_tickets: the ticket_<name> columns, 0 where a row has no such ticket
extract_tickets(data) ==
    LET rows == [i \in 1..Len(data) |-> extract_ticket(data[i].Price_categories, EmptyDict)]
        columns == UNION {DOMAIN rows[i].tickets : i \in 1..Len(data)}
    IN  IF \E i \in 1..Len(data) : rows[i].status # "ok"
        THEN [status |-> "raised", rows |-> <<>>]
        ELSE [status |-> "ok",
              rows |-> [i \in 1..Len(data) |->
                           [c \in columns |-> DictGet(rows[i].tickets, c, 0)]]]

\* The lines of the price categories of the rows, a ticket type on one line only
SplitLineSet ==
    {TicketLine("Adult", 1, 900), TicketLine("Child", 2, 700), TicketLine("Infant", 1, 0)}

SplitRow(cats, presents) == [Price_categories |-> cats, Present_Type_formatted |-> presents]

SplitRows ==
    {SplitRow(cats, presents) :
        cats \in DistinctSeqs(SplitLineSet, MaxLines),
        presents \in {<<>>, <<"B7", "G10">>, <<"BU1">>, <<"B1", "GU1", "?U1">>}}

NoTickets == [status |-> "none", rows |-> <<>>]

siInit ==
    /\ siData \in SeqsUpTo(SplitRows, MaxDataRows)
    /\ siHasPresents \in BOOLEAN
    /\ siPrev = <<>>
    /\ siRuns = 0
    /\ siTickets = NoTickets

siIdle ==
    /\ siData = <<>>
    /\ siHasPresents = FALSE
    /\ siPrev = <<>>
    /\ siRuns = -1
    /\ siTickets = NoTickets

\* The variables the split does not touch
siOthers == <<pbVars, ptVars, totVars, tlVars, stVars, wkVars, adVars, otVars, flVars, cvVars, prVars, iaVars, bdVars, psVars, cfVars, ftVars>>

\* split_infant_presents(data, "Price categories")
SplitInfantPresents ==
    /\ siRuns \in 0..(MaxSplits - 1)
    /\ siTickets = NoTickets
    /\ siPrev' = siData
    /\ siData' = split_infant_presents(siData, siHasPresents)
    /\ siRuns' = siRuns + 1
    /\ UNCHANGED <<siHasPresents, siTickets>>
    /\ UNCHANGED siOthers

\* extract_tickets(data, "Price categories")
ExtractTickets ==
    /\ siRuns >= 0
    /\ siTickets = NoTickets
    /\ siTickets' = extract_tickets(siData)
    /\ UNCHANGED <<siData, siHasPresents, siPrev, siRuns>>
    /\ UNCHANGED siOthers

siNext ==
    \/ SplitInfantPresents
    \/ ExtractTickets

\* The presents of a row that are for an infant: of the codes BU1, GU1, ?U1
InfantsOf(row) ==
    Cardinality({i \in 1..Len(row.Present_Type_formatted) :
                    row.Present_Type_formatted[i] \in {"BU1", "GU1", "?U1"}})

\* C10: a second split_infant_presents leaves the price categories of every row as
\* the first one left them; extract_tickets on the split rows gives every row the
\* Child and Infant quantities the split wrote: the presents that are not for an
\* infant, and the presents that are.
C10_SplitIdempotent ==
    /\ siRuns >= 2 => siData = siPrev
    /\ (siRuns >= 1 /\ siHasPresents /\ siTickets # NoTickets) =>
        /\ siTickets.status = "ok"
        /\ \A i \in 1..Len(siData) :
            LET infants == InfantsOf(siData[i])
                children == Len(siData[i].Present_Type_formatted) - infants
            IN  /\ siTickets.rows[i]["Child"] = children
                /\ infants # 0 => siTickets.rows[i]["Infant"] = infants
                /\ Cardinality({j \in 1..Len(siData[i].Price_categories) :
                       siData[i].Price_categories[j] = <<WordC("Child"), Num(children)>>}) = 1

\* A row of two children, one of them an infant, split twice and then parsed
C10_Witness ==
    /\ siRuns = 2
    /\ siTickets.status = "ok"
    /\ \E i \in 1..Len(siData) :
        /\ siData[i].Present_Type_formatted = <<"B1", "GU1", "?U1">>
        /\ TicketLine("Adult", 1, 900) \in Range(siData[i].Price_categories)
        /\ siTickets.rows[i]["Child"] = 1
        /\ siTickets.rows[i]["Infant"] = 2
        /\ siTickets.rows[i]["Adult"] = 1

-----------------------------------------------------------------------------
(* The additional adults and seniors: parse_bookings with the santa rules    *)
(* over the quantity and the accompanying columns of an export               *)

MaxAdRows == 2

\* The columns of the export the derivation reads, besides "Product title" and
\* "Price categories"
AdColumns == {"Quantity", "Accompanying Adult", "Accompanying Senior"}

\* Product titles, word by word
AdditionalTitles ==
    {<<"Santa", "Special">>, <<"Santa", "Special", "Additional", "Adult">>}

\* Series.str.contains("Additional", regex=False)
ContainsAdditional(title) == \E i \in 1..Len(title) : title[i] = "Additional"

\* parse_int: int(value), 0 where int raises ValueError
parse_int(value) == IF value.kind = "text" /\ value.glyphs = 0 THEN value.n ELSE 0

\* The ticket column of extract_tickets over the rows whose title contains
\* "Additional": the row's position -> the quantity; the column is absent
\* when no such row holds the ticket type
AdditionalTickets(data, ticket_type) ==
    LET picked == {i \in 1..Len(data) : ContainsAdditional(data[i].Product_title)}
        input_data == SelectSeq(data, LAMBDA row : ContainsAdditional(row.Product_title))
        extracted == extract_tickets(input_data)
        PosOf(i) == Cardinality({j \in picked : j <= i})
    IN  IF extracted.status # "ok" THEN [status |-> "ValueError", col |-> EmptyDict]
        ELSE IF input_data = <<>> \/ ticket_type \notin DOMAIN extracted.rows[1]
             THEN [status |-> "absent", col |-> EmptyDict]
        ELSE [status |-> "ok", col |-> [i \in picked |-> extracted.rows[PosOf(i)][ticket_type]]]

\* include_additional_adults(data, col_name, ticket_type): the ticket quantity of
\* the "Additional" rows is added to "<col_name>_formatted" and, where the
\* dataframe holds "Quantity_formatted", subtracted from it
include_additional_adults(data, col_name, ticket_type) ==
    LET tickets == AdditionalTickets(data, ticket_type)
    IN  IF tickets.status = "ValueError" THEN [status |-> "ValueError", data |-> data]
        ELSE IF tickets.status = "absent" THEN [status |-> "ok", data |-> data]
        ELSE IF \E i \in 1..Len(data) : col_name \notin DOMAIN data[i].formatted
             THEN [status |-> "KeyError", data |-> data]
        ELSE [status |-> "ok",
              data |-> [i \in 1..Len(data) |->
                  IF i \notin DOMAIN tickets.col THEN data[i]
                  ELSE [data[i] EXCEPT !.formatted =
                           [c \in DOMAIN data[i].formatted |->
                               IF c = col_name
                               THEN data[i].formatted[c] + tickets.col[i]
                               ELSE IF c = "Quantity"
                               THEN data[i].formatted[c] - tickets.col[i]
                               ELSE data[i].formatted[c]]]]]

\* include_additional_seniors
include_additional_seniors(data, col_name) ==
    include_additional_adults(data, col_name, "Senior")

\* data.loc[:, f"{col_name}_formatted"] = data.apply(conversion_wrapper, ...)
\* with the conversion parse_int
ApplyParseInt(data, col_name) ==
    [i \in 1..Len(data) |->
        [data[i] EXCEPT !.formatted =
            [c \in DOMAIN data[i].formatted \cup {col_name} |->
                IF c = col_name THEN parse_int(data[i].cells[col_name])
                ELSE data[i].formatted[c]]]]

\* The extractions of a column with the santa rules, applied in order
RECURSIVE AdExtractions(_, _, _)
AdExtractions(data, col_name, extractions) ==
    IF extractions = <<>> THEN [status |-> "ok", data |-> data]
    ELSE LET done == IF Head(extractions) = "include_additional_adults"
                     THEN include_additional_adults(data, col_name, "Adult")
                     ELSE include_additional_seniors(data, col_name)
         IN  IF done.status # "ok" THEN done
             ELSE AdExtractions(done.data, col_name, Tail(extractions))

\* The price categories of a row
AdLineSets ==
    {<<TicketLine("Adult", 2, 900)>>,
     <<TicketLine("Adult", 1, 900), TicketLine("Senior", 1, 800)>>,
     <<TicketLine("Adult", 1, 900), TicketLine("Child", 1, 700)>>,
     <<TicketLine("Child", 2, 700)>>}

AdRows ==
    {[Product_title |-> title,
      Price_categories |-> cats,
      cells |-> [c \in AdColumns |->
                    CASE c = "Quantity" -> AccBare(RawQuantity(cats))
                      [] c = "Accompanying Adult" -> adult
                      [] OTHER -> senior],
      formatted |-> EmptyDict] :
        title \in AdditionalTitles, cats \in AdLineSets,
        adult \in {AccEmpty, AccBare(1), AccText(1, 900)},
        senior \in {AccEmpty}}

adInit ==
    /\ adData \in SeqsUpTo(AdRows, MaxAdRows) \ {<<>>}
    /\ adColumns \in {s \in DistinctSeqs(AdColumns, 3) : Len(s) = 3}
    /\ adDerived = {}
    /\ adIdx = 1
    /\ adStatus = "run"

adIdle ==
    /\ adData = <<>>
    /\ adColumns = <<>>
    /\ adDerived = {}
    /\ adIdx = 1
    /\ adStatus = "idle"

\* The variables the derivation does not touch
adOthers == <<pbVars, ptVars, totVars, tlVars, stVars, wkVars, siVars, otVars, flVars, cvVars, prVars, iaVars, bdVars, psVars, cfVars, ftVars>>

\* One pass of the loop of parse_bookings: the conversion of the column, then
\* its extractions
DeriveColumn ==
    /\ adStatus = "run"
    /\ adIdx <= Len(adColumns)
    /\ LET col_name == adColumns[adIdx]
           col_config == ConfigGet("santa", col_name)
           converted == ApplyParseInt(adData, col_name)
           extracted == AdExtractions(converted, col_name, col_config.extractions)
       IN  /\ adData' = extracted.data
           /\ adDerived' = adDerived \cup {col_name}
           /\ adStatus' = IF extracted.status = "ok" THEN "run" ELSE extracted.status
    /\ adIdx' = adIdx + 1
    /\ UNCHANGED <<adColumns, adOthers>>

\* return data
AdReturnData ==
    /\ adStatus = "run"
    /\ adIdx > Len(adColumns)
    /\ adStatus' = "done"
    /\ UNCHANGED <<adData, adColumns, adDerived, adIdx, adOthers>>

adNext == DeriveColumn \/ AdReturnData

\* The quantity of a ticket type in the price categories of a row
LineQty(row, ticket_type) ==
    SumSeq([i \in 1..Len(row.Price_categories) |->
               IF NameBeforeColon(row.Price_categories[i]) = ticket_type
               THEN FieldsAfterColon(row.Price_categories[i])[1].n ELSE 0])

\* C13: once the santa derivations have run, a booking whose title contains
\* "Additional" has the quantity 0 and the accompanying adult and senior counts
\* of the Adult and Senior lines of its price categories; any other booking
\* keeps its quantity and its accompanying counts
C13_AdditionalMovedToAccompanying ==
    adStatus = "done"
    => \A i \in 1..Len(adData) :
           LET row == adData[i]
           IN  IF ContainsAdditional(row.Product_title)
               THEN /\ row.formatted["Quantity"] = 0
                    /\ row.formatted["Accompanying Adult"] = LineQty(row, "Adult")
                    /\ row.formatted["Accompanying Senior"] = LineQty(row, "Senior")
               ELSE \A c \in AdColumns : row.formatted[c] = parse_int(row.cells[c])

-----------------------------------------------------------------------------
(* The order of the ticket types: order_ticket_types, as generate_day_totals *)
(* applies it to the keys of the ticket map of a day                         *)

MaxTypes == 4

\* Ticket type names: the preordered ones and two others
TypeNames == {"Adult", "Senior", "Child", "Family Child", "Infant", "Carer"}

\* ticket_totals of a day: distinct keys in insertion order, a quantity for each
DayTicketTotals ==
    {[keys |-> keys, qty |-> [t \in Range(keys) |-> IndexOf(keys, t)]] :
        keys \in DistinctSeqs(TypeNames, MaxTypes)}

otInit ==
    /\ otTotals \in DayTicketTotals
    /\ otTypes = <<>>
    /\ otSorted = <<>>
    /\ otDone = FALSE

otIdle ==
    /\ otTotals = [keys |-> <<>>, qty |-> EmptyDict]
    /\ otTypes = <<>>
    /\ otSorted = <<>>
    /\ otDone = TRUE

\* The variables the ordering does not touch
otOthers == <<pbVars, ptVars, totVars, tlVars, stVars, wkVars, siVars, adVars, flVars, cvVars, prVars, iaVars, bdVars, psVars, cfVars, ftVars>>

\* ticket_types = order_ticket_types(list(ticket_totals.keys())), then every key
\* is reinserted in that order
OrderDayTickets ==
    /\ ~otDone
    /\ otTypes' = order_ticket_types(otTotals.keys)
    /\ otSorted' = [i \in 1..Len(otTypes') |-> <<otTypes'[i], otTotals.qty[otTypes'[i]]>>]
    /\ otDone' = TRUE
    /\ UNCHANGED <<otTotals, otOthers>>

otNext == OrderDayTickets

\* C16: the ordered types are a permutation of the keys, each exactly once; the
\* types of the priority list come first, in the order Adult, Senior, Child,
\* Family Child; every other type follows, in lexical order; and the keys of the
\* sorted ticket map of the day are in this order, each with its quantity.
C16_TicketTypeOrder ==
    otDone
    => LET priority == <<"Adult", "Senior", "Child", "Family Child">>
           IsPriority(t) == \E p \in 1..4 : priority[p] = t
           PriorityPos(t) == CHOOSE p \in 1..4 : priority[p] = t
       IN  /\ Len(otTypes) = Len(otTotals.keys)
           /\ \A t \in Range(otTotals.keys) :
                  Cardinality({i \in 1..Len(otTypes) : otTypes[i] = t}) = 1
           /\ \A i, j \in 1..Len(otTypes) :
                  i < j =>
                      \/ IsPriority(otTypes[i]) /\ ~IsPriority(otTypes[j])
                      \/ /\ IsPriority(otTypes[i]) /\ IsPriority(otTypes[j])
                         /\ PriorityPos(otTypes[i]) < PriorityPos(otTypes[j])
                      \/ /\ ~IsPriority(otTypes[i]) /\ ~IsPriority(otTypes[j])
                         /\ LexRank(otTypes[i]) < LexRank(otTypes[j])
           /\ Len(otSorted) = Len(otTypes)
           /\ \A i \in 1..Len(otSorted) :
                  otSorted[i] = <<otTypes[i], otTotals.qty[otTypes[i]]>>

\* Keys inserted as Infant, Child, Carer, Adult come out as Adult, Child, Carer, Infant
C16_Witness ==
    /\ otDone
    /\ otTotals.keys = <<"Infant", "Child", "Carer", "Adult">>
    /\ otTypes = <<"Adult", "Child", "Carer", "Infant">>
    /\ otSorted = <<<<"Adult", 4>>, <<"Child", 2>>, <<"Carer", 3>>, <<"Infant", 1>>>>

-----------------------------------------------------------------------------
(* The filters: apply_filters (ticket_sheets/parse_data.py)                  *)

MaxFilterRows == 2

\* A datetime, in hours; datetime.fromisoformat of a date is its midnight
DateTime(day, hour) == day * 24 + hour
fromisoformat(old_order_date) == DateTime(old_order_date, 0)

\* str.upper, on code points
Upper(text) == [i \in 1..Len(text) |-> IF text[i] \in 97..122 THEN text[i] - 32 ELSE text[i]]

\* Series.str.contains(pat, case=False, regex=False): pat.upper() in x.upper()
StrContainsNoCase(text, pat) ==
    \E i \in 1..(Len(text) - Len(pat) + 1) :
        SubSeq(Upper(text), i, i + Len(pat) - 1) = Upper(pat)

\* A variant of filter_old_orders that drops the rows dated at the cutoff
filter_old_orders_Strict(data, hide_old, old_order_date) ==
    IF ~hide_old THEN data
    ELSE SelectSeq(data, LAMBDA row : row.Start_date_formatted > fromisoformat(old_order_date))

\* filter_old_orders
filter_old_orders(data, hide_old, old_order_date) ==
    IF ~hide_old THEN data
    ELSE SelectSeq(data, LAMBDA row : row.Start_date_formatted >= fromisoformat(old_order_date))

\* filter_product
filter_product(data, product_filter) ==
    IF product_filter = <<>> THEN data
    ELSE SelectSeq(data, LAMBDA row : StrContainsNoCase(row.Product_title, product_filter))

\* apply_filters
apply_filters(data, config) ==
    filter_product(filter_old_orders(data, config.hide_old_orders, config.old_order_date),
                   config.product_filter)

\* Product titles and product filters, as code points: "Ab", "aB", "bA", "b";
\* "", "a", "AB", "bb"
FilterTitles == {<<65, 98>>, <<97, 66>>, <<98, 65>>, <<98>>}
ProductFilters == {<<>>, <<97>>, <<65, 66>>, <<98, 98>>}

\* The rows of an export: the booking id is the position of the row in the file
FilterRows ==
    {[Start_date_formatted |-> DateTime(day, hour), Product_title |-> title] :
        day \in 1..3, hour \in {0, 11}, title \in FilterTitles}

FilterData ==
    {[i \in 1..Len(rows) |-> rows[i] @@ [Booking_ID |-> i]] :
        rows \in SeqsUpTo(FilterRows, MaxFilterRows)}

FilterConfigs ==
    {[hide_old_orders |-> hide, old_order_date |-> 2, product_filter |-> pat] :
        hide \in BOOLEAN, pat \in ProductFilters}

flInit ==
    /\ flData \in FilterData
    /\ flConfig \in FilterConfigs
    /\ flResult = <<>>
    /\ flDone = FALSE

flIdle ==
    /\ flData = <<>>
    /\ flConfig = [hide_old_orders |-> FALSE, old_order_date |-> 2, product_filter |-> <<>>]
    /\ flResult = <<>>
    /\ flDone = FALSE

\* The variables the filters do not touch
flOthers == <<pbVars, ptVars, totVars, tlVars, stVars, wkVars, siVars, adVars, otVars, cvVars, prVars, iaVars, bdVars, psVars, cfVars, ftVars>>

\* filtered_data = apply_filters(data, config): the frame passed in is not modified
ApplyFilters ==
    /\ ~flDone
    /\ flResult' = apply_filters(flData, flConfig)
    /\ flDone' = TRUE
    /\ UNCHANGED <<flData, flConfig, flOthers>>

flNext == ApplyFilters

\* Whether a row passes the filters: dated at or after the midnight of the cutoff
\* date, or old orders are shown; the title holds the filter whatever the case
\* of the letters, or the filter is empty
PassesFilters(row) ==
    /\ flConfig.hide_old_orders => row.Start_date_formatted >= flConfig.old_order_date * 24
    /\ \/ flConfig.product_filter = <<>>
       \/ \E i \in 1..Len(row.Product_title) :
              /\ i + Len(flConfig.product_filter) - 1 <= Len(row.Product_title)
              /\ \A k \in 1..Len(flConfig.product_filter) :
                     Lower(<<row.Product_title[i + k - 1]>>) = Lower(<<flConfig.product_filter[k]>>)

\* C15: apply_filters returns exactly the rows of the dataset that pass the
\* filters, in their original order (a row dated exactly at the cutoff is kept),
\* and the step leaves the dataset as it was.
C15_FiltersKeepOrder ==
    /\ [](flDone => flResult = SelectSeq(flData, PassesFilters))
    /\ [][flData' = flData]_vars

\* Two rows, the first at the midnight of the cutoff date with the title "aB",
\* the second a day earlier; with the filter "AB" the first row alone is returned
C15_Witness ==
    /\ flDone
    /\ flConfig.hide_old_orders
    /\ flConfig.product_filter = <<65, 66>>
    /\ Len(flData) = 2
    /\ flData[1].Start_date_formatted = 48
    /\ flData[1].Product_title = <<97, 66>>
    /\ flData[2].Start_date_formatted = 35
    /\ flData[2].Product_title = <<97, 66>>
    /\ flResult = <<flData[1]>>

\* C17: parse_bookings stops with the configuration error (ValueError) only at a
\* name the module of the conversions does not define, with no later rule applied;
\* with the default rule sets 'general' and 'santa' it raises no configuration
\* error.
C17_ConfigurationErrorOnlyForUnknownName ==
    /\ pbPhase = "ValueError"
       => LET cfg == ConfigGet(pbConfig, CurrentColumn)
              name == IF pbLog # <<>> /\ pbLog[Len(pbLog)].col = CurrentColumn
                      THEN cfg.extractions[pbExIdx] ELSE
                      IF cfg.conversion # "" THEN cfg.conversion ELSE cfg.extractions[pbExIdx]
          IN  name \notin ConversionsModule
    /\ pbConfig \in {"general", "santa"}
       => pbPhase # "ValueError"

-----------------------------------------------------------------------------
(* The numeric conversions: parse_int and tidy_price of                      *)
(* ticket_sheets/conversions.py, applied row by row by parse_bookings        *)

MaxConvRows == 2

\* What a conversion returns or raises
Converted(value) == [status |-> "ok", value |-> value]
ConversionRaised(exc) == [status |-> exc, value |-> 0]

\* conversions.tidy_price: float of the value without "&pound;" and without the
\* second pattern, which is the two characters A-circumflex and pound sign; a
\* pound sign alone is left in the text
conversions_tidy_price(value) ==
    IF value.glyph \in {"", "&pound;", "A-circumflex pound sign"}
    THEN Converted(value.pence)
    ELSE ConversionRaised("ValueError")

\* conversions.parse_int, as a conversion of a row
conversions_parse_int(value) == Converted(parse_int(value))

\* The conversion the 'general' rule set names for a column
ConversionOf(col_name, value) ==
    IF ConfigGet("general", col_name).conversion = "parse_int"
    THEN conversions_parse_int(value)
    ELSE conversions_tidy_price(value)

\* The cells of the export: a count, an empty cell and a count with a custom
\* price; a price bare, after "&pound;", after A-circumflex and pound sign,
\* after a pound sign, and the text "n/a"
QuantityCells == {AccBare(2), AccEmpty, AccText(1, 900)}
PriceCells ==
    {RawPrice(glyph, 900) :
        glyph \in {"", "&pound;", "A-circumflex pound sign", "pound sign"}}
    \cup {RawPrice("n/a", 0)}

ConvRows == {("Quantity" :> q) @@ ("Product price" :> p) : q \in QuantityCells, p \in PriceCells}

cvInit ==
    /\ cvData \in SeqsUpTo(ConvRows, MaxConvRows) \ {<<>>}
    /\ cvColumns \in {<<"Quantity", "Product price">>, <<"Product price", "Quantity">>}
    /\ cvFormatted = EmptyDict
    /\ cvIdx = 1
    /\ cvStatus = "run"

cvIdle ==
    /\ cvData = <<>>
    /\ cvColumns = <<>>
    /\ cvFormatted = EmptyDict
    /\ cvIdx = 1
    /\ cvStatus = "idle"

\* The variables the conversions do not touch
cvOthers == <<pbVars, ptVars, totVars, tlVars, stVars, wkVars, siVars, adVars, otVars, flVars, prVars, iaVars, bdVars, psVars, cfVars, ftVars>>

\* data.loc[:, f"{col_name}_formatted"] = data.apply(conversion_wrapper, ...): the
\* conversion of every row of the column; an exception of one row leaves the loop
ConvertColumn ==
    /\ cvStatus = "run"
    /\ cvIdx <= Len(cvColumns)
    /\ LET col_name == cvColumns[cvIdx]
           results == [i \in 1..Len(cvData) |-> ConversionOf(col_name, cvData[i][col_name])]
       IN  IF \E i \in 1..Len(cvData) : results[i].status # "ok"
           THEN /\ cvStatus' = "ValueError"
                /\ UNCHANGED <<cvFormatted, cvIdx>>
           ELSE /\ cvFormatted' = (col_name :> [i \in 1..Len(cvData) |-> results[i].value])
                                      @@ cvFormatted
                /\ cvIdx' = cvIdx + 1
                /\ UNCHANGED cvStatus
    /\ UNCHANGED <<cvData, cvColumns, cvOthers>>

\* return data
ConvReturnData ==
    /\ cvStatus = "run"
    /\ cvIdx > Len(cvColumns)
    /\ cvStatus' = "done"
    /\ UNCHANGED <<cvData, cvColumns, cvFormatted, cvIdx, cvOthers>>

cvNext == ConvertColumn \/ ConvReturnData

\* C18: the numeric conversions never raise, and once parse_bookings is through
\* every row has the formatted value of both columns: the number of the cell, or
\* zero where the cell is not a number
C18_ConversionsNeverRaise ==
    /\ cvStatus \in {"idle", "run", "done"}
    /\ cvStatus = "done"
       => \A i \in 1..Len(cvData) :
              /\ cvFormatted["Quantity"][i]
                     = IF cvData[i]["Quantity"] = AccBare(2) THEN 2 ELSE 0
              /\ cvFormatted["Product price"][i]
                     = IF cvData[i]["Product price"].glyph = "n/a" THEN 0 ELSE 900

-----------------------------------------------------------------------------
(* The present details: extract_present_details (ticket_sheets/conversions.py) *)

MaxPresents == 2

\* A line "#<idx>: <gender>" of the "Present Type" cell
GenderEntry(idx, gender) == [idx |-> idx, gender |-> gender]

\* {"Boy": "B", "Girl": "G"}.get(row["gender"], "?")
GenderChar(gender) ==
    CASE gender = "Boy" -> "B"
      [] gender = "Girl" -> "G"
      [] OTHER -> "?"

\* row["age"].split()[0]: the first word of the age text
FirstWordOfAge(age) ==
    CASE age = "7 yrs old" -> "7"
      [] age = "0 to 1 yrs old" -> "0"
      [] age = "1 to 2 yrs old" -> "1"
      [] age = "2 to 3 yrs old" -> "2"
      [] OTHER -> age

\* format_present: f"{gender_char}{age}", the age "0" shown as "U1"
format_present(gender, age) ==
    [gender |-> GenderChar(gender),
     age |-> IF FirstWordOfAge(age) = "0" THEN "U1" ELSE FirstWordOfAge(age)]

\* The entries of the "Child Age" columns the row holds, as one list
AgeData(row) ==
    (IF row.Child_Age_Nov.present THEN row.Child_Age_Nov.entries ELSE <<>>)
    \o (IF row.Child_Age_Dec.present THEN row.Child_Age_Dec.entries ELSE <<>>)

\* present_details(row, col_name): gender_data.join(age_data, how="left",
\* validate="one_to_one"), an age that is missing filled in as "Choose"
present_details(row) ==
    LET gender_data == row.Present_Type
        age_data == AgeData(row)
        Unique(entries) ==
            \A i, j \in 1..Len(entries) : entries[i].idx = entries[j].idx => i = j
        AgeOf(idx) ==
            IF \E k \in 1..Len(age_data) : age_data[k].idx = idx
            THEN age_data[CHOOSE k \in 1..Len(age_data) : age_data[k].idx = idx].age
            ELSE "Choose"
    IN  IF gender_data = <<>> THEN [status |-> "ok", presents |-> <<>>]
        ELSE IF ~Unique(gender_data) \/ ~Unique(age_data)
             THEN [status |-> "MergeError", presents |-> <<>>]
        ELSE [status |-> "ok",
              presents |-> [i \in 1..Len(gender_data) |->
                               format_present(gender_data[i].gender, AgeOf(gender_data[i].idx))]]

\* The "Present Type" cells: up to MaxPresents attendees, each index once
PresentTypeCells ==
    {cell \in SeqsUpTo({GenderEntry(idx, gender) :
                            idx \in 1..MaxPresents, gender \in {"Boy", "Girl", "Choose"}},
                       MaxPresents) :
        \A i, j \in 1..Len(cell) : cell[i].idx = cell[j].idx => i = j}

PresentRows ==
    {[Present_Type |-> cell, Child_Age_Nov |-> nov, Child_Age_Dec |-> dec] :
        cell \in PresentTypeCells,
        nov \in {AbsentColumn, Column(<<>>),
                 Column(<<AgeEntry(1, "7 yrs old")>>),
                 Column(<<AgeEntry(1, "0 to 1 yrs old")>>),
                 Column(<<AgeEntry(1, "1 to 2 yrs old"), AgeEntry(2, "7 yrs old")>>),
                 Column(<<AgeEntry(3, "2 to 3 yrs old")>>)},
        dec \in {AbsentColumn, Column(<<>>),
                 Column(<<AgeEntry(1, "2 to 3 yrs old")>>),
                 Column(<<AgeEntry(2, "0 to 1 yrs old")>>)}}

NoPresents == [status |-> "none", presents |-> <<>>]

prInit ==
    /\ prRow \in PresentRows
    /\ prResult = NoPresents

prIdle ==
    /\ prRow = [Present_Type |-> <<>>, Child_Age_Nov |-> AbsentColumn,
                Child_Age_Dec |-> AbsentColumn]
    /\ prResult = NoPresents

\* The variables the present details do not touch
prOthers ==
    <<pbVars, ptVars, totVars, tlVars, stVars, wkVars, siVars, adVars, otVars, flVars, cvVars, iaVars, bdVars, psVars, cfVars, ftVars>>

\* data[f"{col_name}_formatted"] = data.apply(present_details, ...), for one row
ExtractPresentDetails ==
    /\ prResult = NoPresents
    /\ prResult' = present_details(prRow)
    /\ UNCHANGED <<prRow, prOthers>>

prNext == ExtractPresentDetails

\* C20: the row gives one present record for each attendee of the gender field, in
\* the order of the field: the gender code B, G or ?, and the age code of an age
\* entry of that attendee (U1 for the age 0, the number otherwise), or the
\* unknown-age marker where no age column has an entry for the attendee; and the
\* row does not fail, whatever the age columns hold.
C20_OnePresentPerAttendee ==
    prResult # NoPresents
    => /\ prResult.status = "ok"
       /\ Len(prResult.presents) = Len(prRow.Present_Type)
       /\ \A i \in 1..Len(prResult.presents) :
              LET entry == prRow.Present_Type[i]
                  ages == {e.age : e \in {x \in Range(prRow.Child_Age_Nov.entries)
                                               \cup Range(prRow.Child_Age_Dec.entries) :
                                             x.idx = entry.idx}}
                  AgeCode(age) ==
                      CASE age = "0 to 1 yrs old" -> "U1"
                        [] age = "1 to 2 yrs old" -> "1"
                        [] age = "2 to 3 yrs old" -> "2"
                        [] OTHER -> "7"
              IN  /\ prResult.presents[i].gender
                         = (IF entry.gender = "Boy" THEN "B"
                            ELSE IF entry.gender = "Girl" THEN "G" ELSE "?")
                  /\ IF ages = {} THEN prResult.presents[i].age = "Choose"
                     ELSE \E age \in ages : prResult.presents[i].age = AgeCode(age)

\* C27: split_infant_presents keeps the tickets of every booking: the Child and
\* the Infant quantity of the rewritten price categories add up to the Child
\* quantity of the original ones, and the lines of the other ticket types are
\* the lines they were.
C27_SplitConservesTickets ==
    (siRuns = 1 /\ Len(siPrev) = Len(siData))
    => \A i \in 1..Len(siData) :
           LET OtherType(line) == NameBeforeColon(line) \notin {"Child", "Infant"}
           IN  /\ LineQty(siData[i], "Child") + LineQty(siData[i], "Infant")
                      = LineQty(siPrev[i], "Child")
               /\ SelectSeq(siData[i].Price_categories, OtherType)
                      = SelectSeq(siPrev[i].Price_categories, OtherType)

-----------------------------------------------------------------------------
(* The accompanying tickets: include_accompanying followed by extract_tickets *)
(* (ticket_sheets/conversions.py)                                             *)

MaxAccRows == 2

\* add_accompanying, row by row: a count other than 0 is written to the line of
\* the ticket by _update_tickets
add_accompanying(row, has_cols) ==
    LET ticket_lines == row.Price_categories
        with_adults ==
            IF has_cols /\ row.Accompanying_Adult_formatted # 0
            THEN _update_tickets(ticket_lines, "Adult", row.Accompanying_Adult_formatted)
            ELSE ticket_lines
        with_seniors ==
            IF has_cols /\ row.Accompanying_Senior_formatted # 0
            THEN _update_tickets(with_adults, "Senior", row.Accompanying_Senior_formatted)
            ELSE with_adults
    IN  [row EXCEPT !.Price_categories = with_seniors]

\* include_accompanying
include_accompanying(data, has_cols) ==
    [i \in 1..Len(data) |-> add_accompanying(data[i], has_cols)]

\* The lines of the price categories of the rows, a ticket type on one line only
AccLineSet ==
    {TicketLine("Adult", 2, 900), TicketLine("Senior", 1, 800), TicketLine("Child", 2, 700)}

AccRows ==
    {[Price_categories |-> cats,
      Accompanying_Adult_formatted |-> adults,
      Accompanying_Senior_formatted |-> seniors] :
        cats \in DistinctSeqs(AccLineSet, MaxLines), adults \in 0..2, seniors \in 0..1}

iaInit ==
    /\ iaData \in SeqsUpTo(AccRows, MaxAccRows) \ {<<>>}
    /\ iaHasCols \in BOOLEAN
    /\ iaPrev = <<>>
    /\ iaTickets = NoTickets
    /\ iaStep = "start"

iaIdle ==
    /\ iaData = <<>>
    /\ iaHasCols = FALSE
    /\ iaPrev = <<>>
    /\ iaTickets = NoTickets
    /\ iaStep = "idle"

\* The variables the accompanying tickets do not touch
iaOthers ==
    <<pbVars, ptVars, totVars, tlVars, stVars, wkVars, siVars, adVars, otVars, flVars,
      cvVars, prVars, bdVars, psVars, cfVars, ftVars>>

\* include_accompanying(data, "Price categories")
IncludeAccompanying ==
    /\ iaStep = "start"
    /\ iaPrev' = iaData
    /\ iaData' = include_accompanying(iaData, iaHasCols)
    /\ iaStep' = "included"
    /\ UNCHANGED <<iaHasCols, iaTickets, iaOthers>>

\* extract_tickets(data, "Price categories"), the last extraction of the column
AccExtractTickets ==
    /\ iaStep = "included"
    /\ iaTickets' = extract_tickets(iaData)
    /\ iaStep' = "extracted"
    /\ UNCHANGED <<iaData, iaHasCols, iaPrev, iaOthers>>

iaNext == IncludeAccompanying \/ AccExtractTickets

\* C28: after include_accompanying and extract_tickets every booking has the
\* Adult tickets of its original price categories plus its accompanying adults in
\* ticket_Adult, and likewise for the seniors; a booking without accompanying
\* adults and seniors keeps its price categories.
C28_AccompanyingAdded ==
    (iaStep = "extracted" /\ iaHasCols)
    => /\ iaTickets.status = "ok"
       /\ \A i \in 1..Len(iaData) :
              /\ DictGet(iaTickets.rows[i], "Adult", 0)
                     = LineQty(iaPrev[i], "Adult") + iaPrev[i].Accompanying_Adult_formatted
              /\ DictGet(iaTickets.rows[i], "Senior", 0)
                     = LineQty(iaPrev[i], "Senior") + iaPrev[i].Accompanying_Senior_formatted
              /\ (iaPrev[i].Accompanying_Adult_formatted = 0
                  /\ iaPrev[i].Accompanying_Senior_formatted = 0)
                 => iaData[i].Price_categories = iaPrev[i].Price_categories

-----------------------------------------------------------------------------
(* The breakdowns of ticket_sheets/breakdown.py.  A frame has its ticket      *)
(* columns in order, each named "ticket_" followed by the ticket type, and    *)
(* every row holds a quantity in every ticket column.  Names are sequences of *)
(* code points.                                                               *)

MaxBdRows == 2
MaxBdCols == 2

\* "ticket_"
TicketPrefix == <<116, 105, 99, 107, 101, 116, 95>>

\* The ticket types of the frames: "Adult", "Child", "child", "hild"
BdTypes ==
    {<<65, 100, 117, 108, 116>>, <<67, 104, 105, 108, 100>>,
     <<99, 104, 105, 108, 100>>, <<104, 105, 108, 100>>}

\* str.lstrip(chars): the leading characters that are in the SET chars are removed
RECURSIVE lstrip(_, _)
lstrip(text, chars) ==
    IF text # <<>> /\ Head(text) \in Range(chars) THEN lstrip(Tail(text), chars) ELSE text

\* [col for col in data.columns if col.startswith("ticket_")]
ticket_cols(data) == data.columns

\* data[ticket_cols].sum(axis="index"): the sum of each ticket column over rows
ColumnSums(data, rows) ==
    [c \in 1..Len(data.columns) |-> SumSeq([r \in 1..Len(rows) |-> rows[r].qty[c]])]

\* {ticket.lstrip("ticket_"): qty for ticket, qty in ticket_totals.items()}: a
\* key that occurs again takes the later value
RECURSIVE StripKeys(_, _, _)
StripKeys(cols, sums, acc) ==
    IF cols = <<>> THEN acc
    ELSE LET key == lstrip(Head(cols), TicketPrefix)
         IN  StripKeys(Tail(cols), Tail(sums),
                 [k \in DOMAIN acc \cup {key} |-> IF k = key THEN Head(sums) ELSE acc[k]])

\* sort_tickets (imported from utils.internal): the same keys and values in
\* another key order, which a function does not record
sort_tickets(ticket_totals) == ticket_totals

\* The tickets map and num_tickets of a set of rows
TicketTotals(data, rows) ==
    LET ticket_totals == sort_tickets(StripKeys(ticket_cols(data), ColumnSums(data, rows), EmptyDict))
    IN  [tickets |-> ticket_totals,
         num_tickets |-> SumValues(ticket_totals),
         num_orders |-> Len(rows)]

NoTicketTotals == [status |-> "none"]

\* generate_overall_breakdown: RuntimeError without ticket columns
generate_overall_breakdown(data) ==
    IF ticket_cols(data) = <<>> THEN [status |-> "RuntimeError"]
    ELSE [status |-> "ok", totals |-> TicketTotals(data, data.rows)]

\* The rows of a (date, event) group in frame order
RECURSIVE EventRows(_, _, _)
EventRows(rows, date, event) ==
    IF rows = <<>> THEN <<>>
    ELSE IF Head(rows).date = date /\ Head(rows).event = event
         THEN <<Head(rows)>> \o EventRows(Tail(rows), date, event)
         ELSE EventRows(Tail(rows), date, event)

\* generate_event_breakdown: one EventTotal per (date, event) of the rows
generate_event_breakdown(data) ==
    IF ticket_cols(data) = <<>> THEN [status |-> "RuntimeError"]
    ELSE LET keys == {<<data.rows[r].date, data.rows[r].event>> : r \in 1..Len(data.rows)}
         IN  [status |-> "ok",
              event_totals |->
                  [key \in keys |-> TicketTotals(data, EventRows(data.rows, key[1], key[2]))]]

BdRow(date, event, qty) == [date |-> date, event |-> event, qty |-> qty]

BdFrames ==
    UNION {
        {[columns |-> [c \in 1..Len(types) |-> TicketPrefix \o types[c]], rows |-> rows] :
            rows \in SeqsUpTo(
                {BdRow(date, event, qty) :
                    date \in 1..2, event \in {"Santa", "Fair"},
                    qty \in [1..Len(types) -> 0..MaxQty]},
                MaxBdRows)} :
        types \in DistinctSeqs(BdTypes, MaxBdCols)}

bdInit ==
    /\ bdData \in BdFrames
    /\ bdTotals = NoTicketTotals
    /\ bdEvents = NoTicketTotals

bdIdle ==
    /\ bdData = [columns |-> <<>>, rows |-> <<>>]
    /\ bdTotals = NoTicketTotals
    /\ bdEvents = NoTicketTotals

bdOthers ==
    <<pbVars, ptVars, totVars, tlVars, stVars, wkVars, siVars, adVars, otVars, flVars,
      cvVars, prVars, iaVars, psVars, cfVars, ftVars>>

\* totals = generate_overall_breakdown(data)
GenerateOverallBreakdown ==
    /\ bdTotals = NoTicketTotals
    /\ bdTotals' = generate_overall_breakdown(bdData)
    /\ UNCHANGED <<bdData, bdEvents, bdOthers>>

\* event_totals = generate_event_breakdown(data)
GenerateEventBreakdown ==
    /\ bdEvents = NoTicketTotals
    /\ bdEvents' = generate_event_breakdown(bdData)
    /\ UNCHANGED <<bdData, bdTotals, bdOthers>>

bdNext == GenerateOverallBreakdown \/ GenerateEventBreakdown

\* The ticket types of a frame, and the quantity of a type over rows
BdTypeOf(data, c) == SubSeq(data.columns[c], Len(TicketPrefix) + 1, Len(data.columns[c]))

BdQuantity(data, rows) ==
    SumSeq([r \in 1..Len(rows) |-> SumSeq(rows[r].qty)])

BdTotalsFaithful(data, rows, totals) ==
    /\ DOMAIN totals.tickets = {BdTypeOf(data, c) : c \in 1..Len(data.columns)}
    /\ \A c \in 1..Len(data.columns) :
           DictGet(totals.tickets, BdTypeOf(data, c), -1)
               = SumSeq([r \in 1..Len(rows) |-> rows[r].qty[c]])
    /\ totals.num_tickets = BdQuantity(data, rows)

\* C26: in generate_overall_breakdown and generate_event_breakdown the tickets
\* map has exactly one key per ticket column, the key is the ticket type
\* unchanged with the summed quantity of its column, and num_tickets is the sum
\* of all ticket-column quantities of the rows aggregated
C26_TicketKeysFaithful ==
    /\ (bdTotals.status = "ok")
       => BdTotalsFaithful(bdData, bdData.rows, bdTotals.totals)
    /\ (bdEvents.status = "ok")
       => \A key \in DOMAIN bdEvents.event_totals :
              BdTotalsFaithful(bdData, EventRows(bdData.rows, key[1], key[2]),
                  bdEvents.event_totals[key])

-----------------------------------------------------------------------------
(* The present tables of ticket_sheets/breakdown.py.  A booking has the date  *)
(* and the time (HH:MM) of its start and the list of its present codes; a     *)
(* table is a function from the dates of its rows to a function from its      *)
(* columns to counts.                                                         *)

MaxPsRows == 2

\* PRESENT_AGES: "BU1", "B1".."B14", "GU1", "G1".."G14"
PRESENT_AGES ==
    {"BU1", "B1", "B2", "B3", "B4", "B5", "B6", "B7", "B8", "B9", "B10", "B11",
     "B12", "B13", "B14",
     "GU1", "G1", "G2", "G3", "G4", "G5", "G6", "G7", "G8", "G9", "G10", "G11",
     "G12", "G13", "G14"}

\* The present codes of the bookings: format_present gives "?" for a gender that
\* is neither "Boy" nor "Girl"
PsCodes == {"B7", "GU1", "?7"}

\* list(table_configs.train_limits.keys())
PsTrainTimes == {"10:30", "11:00"}

\* The start times of the bookings
PsStartTimes == {"10:30", "11:00", "17:00"}

PsRow(date, train, presents) == [date |-> date, train |-> train, presents |-> presents]

\* explode(col_name).dropna(): the presents of the bookings, each with the date
\* of its booking; a booking without presents leaves no row
RECURSIVE ExplodePresents(_)
ExplodePresents(data) ==
    IF data = <<>> THEN <<>>
    ELSE [p \in 1..Len(Head(data).presents) |->
             [date |-> Head(data).date, age |-> Head(data).presents[p]]]
         \o ExplodePresents(Tail(data))

\* summarise_presents_by_age: groupby(["date", "age"]).size(), pivoted to one row
\* per date, reindexed to the columns PRESENT_AGES with 0 for a missing value
summarise_presents_by_age(data) ==
    LET present_ages == ExplodePresents(data)
        dates == {present_ages[i].date : i \in 1..Len(present_ages)}
    IN  [date \in dates |->
            [age \in PRESENT_AGES |->
                Cardinality({i \in 1..Len(present_ages) :
                                present_ages[i].date = date /\ present_ages[i].age = age})]]

\* summarise_presents_by_train: the present counts summed per start, pivoted to
\* one row per date, reindexed to the columns train_times with 0 for a missing
\* value
summarise_presents_by_train(data, times) ==
    LET dates == {data[i].date : i \in 1..Len(data)}
    IN  [date \in dates |->
            [train \in times |->
                SumSeq([i \in 1..Len(data) |->
                           IF data[i].date = date /\ data[i].train = train
                           THEN Len(data[i].presents) ELSE 0])]]

NoTable == [status |-> "none"]

psInit ==
    /\ psData \in SeqsUpTo(
           {PsRow(date, train, presents) :
               date \in 1..2, train \in PsStartTimes,
               presents \in SeqsUpTo(PsCodes, MaxPresents)},
           MaxPsRows)
    /\ psByAge = NoTable
    /\ psByTrain = NoTable

psIdle ==
    /\ psData = <<>>
    /\ psByAge = NoTable
    /\ psByTrain = NoTable

psOthers ==
    <<pbVars, ptVars, totVars, tlVars, stVars, wkVars, siVars, adVars, otVars, flVars,
      cvVars, prVars, iaVars, bdVars, cfVars, ftVars>>

\* presents_by_age = summarise_presents_by_age(parsed_bookings, presents_column)
SummarisePresentsByAge ==
    /\ psByAge = NoTable
    /\ psByAge' = [status |-> "ok", table |-> summarise_presents_by_age(psData)]
    /\ UNCHANGED <<psData, psByTrain, psOthers>>

\* presents_by_train = summarise_presents_by_train(parsed_bookings, train_times, ...)
SummarisePresentsByTrain ==
    /\ psByTrain = NoTable
    /\ psByTrain' = [status |-> "ok",
                     table |-> summarise_presents_by_train(psData, PsTrainTimes)]
    /\ UNCHANGED <<psData, psByAge, psOthers>>

psNext == SummarisePresentsByAge \/ SummarisePresentsByTrain

\* The total of the row of a date in a table, 0 for a date without a row
PsRowTotal(table, date) ==
    IF date \in DOMAIN table THEN SumValues(table[date]) ELSE 0

\* The number of Present Records of the bookings on a date
PsPresentsOn(date) ==
    SumSeq([i \in 1..Len(psData) |->
               IF psData[i].date = date THEN Len(psData[i].presents) ELSE 0])

\* C25: for every date of the dataset the row total of the by-age table and the
\* row total of the by-train table both equal the number of Present Records of
\* the bookings on that date, and a combination without presents holds 0
C25_PresentTablesAgree ==
    (psByAge.status = "ok" /\ psByTrain.status = "ok")
    => \A i \in 1..Len(psData) :
           LET date == psData[i].date
           IN  /\ PsRowTotal(psByAge.table, date) = PsPresentsOn(date)
               /\ PsRowTotal(psByTrain.table, date) = PsPresentsOn(date)

-----------------------------------------------------------------------------
(* The configuration store of ticket_sheets/config.py.  config.json is shared *)
(* by the workers of the server; every worker has its own _config dict.  A    *)
(* call of a function of config.py is one step of its worker.  A DataConfig   *)
(* is modelled by a name for its content.                                     *)

MaxCfCalls == 3

CfWorkers == 1..2

\* The keys that update_config_url and update_config_values store
CfSettingKeys == {"CSV URL", "product filter"}

CfFilters == {"Santa"}

\* DEFAULT_CONFIGS
DEFAULT_CONFIGS == [general |-> "general-default", santa |-> "santa-default"]

\* The value of a key that a dict does not hold
CfAbsent == ""

\* _config == {}
CfUnloaded ==
    [loaded |-> FALSE, settings |-> EmptyDict, ticket_prices |-> EmptyDict,
     active_config |-> CfAbsent, data_config |-> CfAbsent, data_configs |-> EmptyDict,
     secret_key |-> FALSE]

\* _save_config: the configuration without data_config, its data_configs
\* serialised as data_configs_dict
save_config(config) ==
    [settings |-> config.settings,
     ticket_prices |-> config.ticket_prices,
     active_config |-> config.active_config,
     data_configs_dict |-> config.data_configs,
     secret_key |-> config.secret_key]

\* _load_data_configs: the defaults for a store without configurations, the
\* active configuration, 'general' when active_config names none
load_data_configs(active_config, data_configs_dict) ==
    LET empty == DOMAIN data_configs_dict = {}
        data_configs == IF empty THEN DEFAULT_CONFIGS ELSE data_configs_dict
        active == IF empty THEN "general" ELSE active_config
    IN  IF active \in DOMAIN data_configs
        THEN [active_config |-> active, data_configs |-> data_configs,
              data_config |-> data_configs[active]]
        ELSE LET general == IF "general" \in DOMAIN data_configs THEN data_configs
                            ELSE data_configs @@ [general |-> DEFAULT_CONFIGS.general]
             IN  [active_config |-> "general", data_configs |-> general,
                  data_config |-> general["general"]]

\* _load_config: the stored configuration with its defaults, a secret_key that
\* is generated when the store has none
load_config(file) ==
    LET dc == load_data_configs(file.active_config, file.data_configs_dict)
    IN  [loaded |-> TRUE,
         settings |-> [k \in CfSettingKeys |-> DictGet(file.settings, k, "")],
         ticket_prices |-> file.ticket_prices,
         active_config |-> dc.active_config,
         data_config |-> dc.data_config,
         data_configs |-> dc.data_configs,
         secret_key |-> TRUE]

\* _config.update(kwargs)
update_config(config, kwargs) ==
    [config EXCEPT !.settings = [k \in DOMAIN @ |-> DictGet(kwargs, k, @[k])]]

\* update_prices: the filter is removed when prices is None (0), set otherwise
update_prices(config, filter, prices) ==
    [config EXCEPT !.ticket_prices =
        IF prices = 0 THEN [f \in DOMAIN @ \ {filter} |-> @[f]]
        ELSE [f \in DOMAIN @ \cup {filter} |-> IF f = filter THEN prices ELSE @[f]]]

\* A variant of activate_config that accepts any name
activate_config_Unchecked(config, name) ==
    [status |-> "ok",
     config |-> [config EXCEPT !.active_config = name,
                               !.data_config = DictGet(config.data_configs, name, CfAbsent)]]

\* activate_config: ValueError for a name that is no configuration
activate_config(config, name) ==
    IF name \notin DOMAIN config.data_configs
    THEN [status |-> "ValueError", config |-> config]
    ELSE [status |-> "ok",
          config |-> [config EXCEPT !.active_config = name,
                                    !.data_config = config.data_configs[name]]]

\* What a worker has done: nothing, a refresh, a refresh and then one update,
\* or anything else
CfIdle == [st |-> "idle", kind |-> "", key |-> "", val |-> 0]
CfRefreshed == [st |-> "refreshed", kind |-> "", key |-> "", val |-> 0]
CfOther == [st |-> "other", kind |-> "", key |-> "", val |-> 0]
CfUpdated(req, kind, key, val) ==
    IF req.st = "refreshed" THEN [st |-> "updated", kind |-> kind, key |-> key, val |-> val]
    ELSE CfOther

CfNoCall == [w |-> 0, op |-> "", name |-> "", status |-> ""]

CfStores ==
    {[settings |-> EmptyDict, ticket_prices |-> EmptyDict, active_config |-> active,
      data_configs_dict |-> dcd, secret_key |-> secret] :
        active \in {CfAbsent, "general", "santa", "gone"},
        dcd \in {EmptyDict,
                 [general |-> "general-edited"],
                 [general |-> "general-default", santa |-> "santa-default"],
                 [santa |-> "santa-edited"]},
        secret \in BOOLEAN}

cfInit ==
    /\ cfFile \in CfStores
    /\ cfConfig = [w \in CfWorkers |-> CfUnloaded]
    /\ cfReq = [w \in CfWorkers |-> CfIdle]
    /\ cfCalls = [w \in CfWorkers |-> 0]
    /\ cfLast = CfNoCall
    /\ cfPrev = [config |-> CfUnloaded, file |-> cfFile]

cfIdle ==
    /\ cfFile = [settings |-> EmptyDict, ticket_prices |-> EmptyDict,
                 active_config |-> CfAbsent, data_configs_dict |-> EmptyDict,
                 secret_key |-> FALSE]
    /\ cfConfig = [w \in CfWorkers |-> CfUnloaded]
    /\ cfReq = [w \in CfWorkers |-> CfIdle]
    /\ cfCalls = [w \in CfWorkers |-> 0]
    /\ cfLast = CfNoCall
    /\ cfPrev = [config |-> CfUnloaded, file |-> cfFile]

cfOthers ==
    <<pbVars, ptVars, totVars, tlVars, stVars, wkVars, siVars, adVars, otVars, flVars,
      cvVars, prVars, iaVars, bdVars, psVars, ftVars>>

\* The call of a function of config.py by worker w
CfCall(w, op, name, status) ==
    /\ cfCalls[w] < MaxCfCalls
    /\ cfCalls' = [cfCalls EXCEPT ![w] = @ + 1]
    /\ cfLast' = [w |-> w, op |-> op, name |-> name, status |-> status]
    /\ cfPrev' = [config |-> cfConfig[w], file |-> cfFile]

\* load_fresh_config (before every request), get_config at the start: the
\* store is loaded, and saved when it had no secret_key
LoadFreshConfig(w) ==
    /\ CfCall(w, "refresh_config", "", "ok")
    /\ cfConfig' = [cfConfig EXCEPT ![w] = load_config(cfFile)]
    /\ cfFile' = IF cfFile.secret_key THEN cfFile ELSE save_config(load_config(cfFile))
    /\ cfReq' = [cfReq EXCEPT ![w] = IF @.st = "idle" THEN CfRefreshed ELSE CfOther]
    /\ UNCHANGED cfOthers

\* update_config_url: update_config(**{"CSV URL": ...}) and the save
UpdateConfigUrl(w) ==
    /\ cfConfig[w].loaded
    /\ CfCall(w, "update_config", "", "ok")
    /\ LET config == update_config(cfConfig[w], [k \in {"CSV URL"} |-> "url"])
       IN  /\ cfConfig' = [cfConfig EXCEPT ![w] = config]
           /\ cfFile' = save_config(config)
    /\ cfReq' = [cfReq EXCEPT ![w] = CfUpdated(@, "setting", "CSV URL", 1)]
    /\ UNCHANGED cfOthers

\* update_config_values: update_config(**{"product filter": ..., ...}) and the save
UpdateConfigValues(w) ==
    /\ cfConfig[w].loaded
    /\ CfCall(w, "update_config", "", "ok")
    /\ LET config == update_config(cfConfig[w], [k \in {"product filter"} |-> "filter"])
       IN  /\ cfConfig' = [cfConfig EXCEPT ![w] = config]
           /\ cfFile' = save_config(config)
    /\ cfReq' = [cfReq EXCEPT ![w] = CfUpdated(@, "setting", "product filter", 1)]
    /\ UNCHANGED cfOthers

\* set_event_price without a renamed filter: update_prices(event, prices) and
\* the save; prices 0 stands for the deletion of the filter
SetEventPrice(w) ==
    /\ cfConfig[w].loaded
    /\ CfCall(w, "update_prices", "", "ok")
    /\ \E event \in CfFilters, prices \in 0..1 :
           LET config == update_prices(cfConfig[w], event, prices)
           IN  /\ cfConfig' = [cfConfig EXCEPT ![w] = config]
               /\ cfFile' = save_config(config)
               /\ cfReq' = [cfReq EXCEPT ![w] = CfUpdated(@, "price", event, prices)]
    /\ UNCHANGED cfOthers

\* activate_config(name): the save follows only when the name is known
ActivateConfig(w) ==
    /\ cfConfig[w].loaded
    /\ \E name \in {"general", "santa", "gone"} :
           LET result == activate_config(cfConfig[w], name)
           IN  /\ CfCall(w, "activate_config", name, result.status)
               /\ cfConfig' = [cfConfig EXCEPT ![w] = result.config]
               /\ cfFile' = IF result.status = "ok" THEN save_config(result.config)
                            ELSE cfFile
    /\ cfReq' = [cfReq EXCEPT ![w] = CfOther]
    /\ UNCHANGED cfOthers

cfNext ==
    \E w \in CfWorkers :
        \/ LoadFreshConfig(w)
        \/ UpdateConfigUrl(w)
        \/ UpdateConfigValues(w)
        \/ SetEventPrice(w)
        \/ ActivateConfig(w)

\* The stored configuration holds the update of a request
CfStored(req) ==
    IF req.kind = "setting"
    THEN DictGet(cfFile.settings, req.key, "") # ""
    ELSE IF req.val = 0 THEN req.key \notin DOMAIN cfFile.ticket_prices
         ELSE DictGet(cfFile.ticket_prices, req.key, 0) = req.val

\* C21: when two workers have each handled one request, a refresh and then an
\* update of a key of its own, the stored configuration holds both updates
C21_BothUpdatesStored ==
    \A w1, w2 \in CfWorkers :
        (/\ w1 # w2
         /\ cfReq[w1].st = "updated" /\ cfReq[w2].st = "updated"
         /\ <<cfReq[w1].kind, cfReq[w1].key>> # <<cfReq[w2].kind, cfReq[w2].key>>)
        => CfStored(cfReq[w1]) /\ CfStored(cfReq[w2])

\* C30: the _config of a worker that has loaded the store has its data_config
\* equal to data_configs[active_config], active_config naming a configuration;
\* activate_config with an unknown name raises ValueError and leaves
\* active_config, data_config and the store as they were; a load of a store
\* whose active_config names none of its configurations activates 'general'
C30_ActiveConfigConsistent ==
    /\ \A w \in CfWorkers :
           cfConfig[w].loaded
           => /\ cfConfig[w].active_config \in DOMAIN cfConfig[w].data_configs
              /\ cfConfig[w].data_config
                     = cfConfig[w].data_configs[cfConfig[w].active_config]
    /\ (cfLast.op = "activate_config"
        /\ cfLast.name \notin DOMAIN cfPrev.config.data_configs)
       => /\ cfLast.status = "ValueError"
          /\ cfConfig[cfLast.w].active_config = cfPrev.config.active_config
          /\ cfConfig[cfLast.w].data_config = cfPrev.config.data_config
          /\ cfFile = cfPrev.file
    /\ (cfLast.op = "refresh_config"
        /\ cfPrev.file.active_config \notin DOMAIN cfPrev.file.data_configs_dict)
       => cfConfig[cfLast.w].active_config = "general"

\* A worker whose load fell back to 'general' has called activate_config with
\* an unknown name
C30_Witness ==
    /\ cfLast.op = "activate_config"
    /\ cfLast.status = "ValueError"
    /\ cfPrev.file.active_config = "gone"
    /\ cfConfig[cfLast.w].active_config = "general"

-----------------------------------------------------------------------------
(* The rows of the output table: format_for_table (ticket_sheets/             *)
(* parse_data.py).  A booking has its place in the export (id) and the date   *)
(* and the time of its start; a row of the output has its type, and the       *)
(* booking or the date it was made from.                                      *)

MaxFtRows == 3

FtBooking(id, date, time) == [id |-> id, date |-> date, time |-> time]

\* TableRow(booking_type, fields)
TableRow(booking_type, id, date) == [booking_type |-> booking_type, id |-> id, date |-> date]

\* The columns of the frame that a sort can name
FtColumns == {"Start date_formatted"}

\* data.sort_values(column, kind="stable") by the start (date, then time); a
\* column the frame does not have raises KeyError and the sort is skipped
ft_sort_values(data, column) ==
    IF column \notin FtColumns THEN data
    ELSE StableSort(data, [i \in 1..Len(data) |-> data[i].date * 100 + data[i].time])

\* for sort_config in config.sorts: ...
RECURSIVE FtApplySorts(_, _)
FtApplySorts(data, sorts) ==
    IF sorts = <<>> THEN data
    ELSE FtApplySorts(ft_sort_values(data, Head(sorts)), Tail(sorts))

\* The keys of a groupby in ascending order
RECURSIVE GroupKeys(_)
GroupKeys(keys) ==
    IF keys = {} THEN <<>>
    ELSE LET least == CHOOSE k \in keys : \A other \in keys : k <= other
         IN  <<least>> \o GroupKeys(keys \ {least})

\* The rows of a group in the order of the frame
RECURSIVE GroupRows(_, _, _)
GroupRows(data, date, times) ==
    IF data = <<>> THEN <<>>
    ELSE IF Head(data).date = date /\ Head(data).time \in times
         THEN <<Head(data)>> \o GroupRows(Tail(data), date, times)
         ELSE GroupRows(Tail(data), date, times)

\* for _, time_group in date_group.groupby(... .dt.time): the booking rows of
\* the group, then a divider when demark_train
RECURSIVE TimeGroups(_, _, _, _, _)
TimeGroups(data, date, times, config, output_rows) ==
    IF times = <<>> THEN output_rows
    ELSE LET time_group == GroupRows(data, date, {Head(times)})
             bookings == [i \in 1..Len(time_group) |->
                             TableRow("booking", time_group[i].id, date)]
             divider == IF config.demark_train THEN <<TableRow("divider", 0, 0)>> ELSE <<>>
         IN  TimeGroups(data, date, Tail(times), config, output_rows \o bookings \o divider)

\* A variant of the end of a day that keeps the divider before the totals
DayTotals_KeepDivider(output_rows, date) ==
    output_rows \o <<TableRow("totals", 0, date), TableRow("divider", 0, 0)>>

\* if daily_totals: a divider at the end is popped, then the totals row and a
\* divider are appended
DayTotals(output_rows, date) ==
    LET popped == IF output_rows[Len(output_rows)].booking_type = "divider"
                  THEN SubSeq(output_rows, 1, Len(output_rows) - 1)
                  ELSE output_rows
    IN  popped \o <<TableRow("totals", 0, date), TableRow("divider", 0, 0)>>

\* for date_val, date_group in data.groupby(... .dt.date): the date row, the
\* time groups, the totals
RECURSIVE DateGroups(_, _, _, _, _)
DateGroups(data, dates, config, daily_totals, output_rows) ==
    IF dates = <<>> THEN output_rows
    ELSE LET date == Head(dates)
             times == GroupKeys({data[i].time : i \in {j \in 1..Len(data) : data[j].date = date}})
             day == TimeGroups(data, date, times, config,
                        Append(output_rows, TableRow("date", 0, date)))
         IN  DateGroups(data, Tail(dates), config, daily_totals,
                 IF daily_totals THEN DayTotals(day, date) ELSE day)

\* format_for_table(data, config, daily_totals)
format_for_table(data, config, daily_totals) ==
    LET sorted == FtApplySorts(data, config.sorts)
    IN  IF config.group_by_date
        THEN DateGroups(sorted, GroupKeys({sorted[i].date : i \in 1..Len(sorted)}),
                 config, daily_totals, <<>>)
        ELSE [i \in 1..Len(sorted) |-> TableRow("booking", sorted[i].id, sorted[i].date)]

FtFrames ==
    UNION {[1..n -> {1, 2} \X {1, 2}] : n \in 0..MaxFtRows}

FtConfigs ==
    {[sorts |-> sorts, group_by_date |-> grouped, demark_train |-> demark] :
        sorts \in {<<>>, <<"Start date_formatted">>, <<"Booking ID_formatted">>},
        grouped \in BOOLEAN, demark \in BOOLEAN}

ftInit ==
    /\ \E frame \in FtFrames :
           ftData = [i \in 1..Len(frame) |-> FtBooking(i, frame[i][1], frame[i][2])]
    /\ ftConfig \in FtConfigs
    /\ ftDailyTotals \in BOOLEAN
    /\ ftRows = <<>>
    /\ ftDone = FALSE

ftIdle ==
    /\ ftData = <<>>
    /\ ftConfig = [sorts |-> <<>>, group_by_date |-> FALSE, demark_train |-> FALSE]
    /\ ftDailyTotals = FALSE
    /\ ftRows = <<>>
    /\ ftDone = FALSE

ftOthers ==
    <<pbVars, ptVars, totVars, tlVars, stVars, wkVars, siVars, adVars, otVars, flVars,
      cvVars, prVars, iaVars, bdVars, psVars, cfVars>>

\* rendered_bookings = format_for_table(parsed_bookings, config, daily_totals)
RenderBookings ==
    /\ ~ftDone
    /\ ftRows' = format_for_table(ftData, ftConfig, ftDailyTotals)
    /\ ftDone' = TRUE
    /\ UNCHANGED <<ftData, ftConfig, ftDailyTotals, ftOthers>>

ftNext == RenderBookings

\* The positions of the rows of a type in the output
FtRowsOf(type) == {p \in 1..Len(ftRows) : ftRows[p].booking_type = type}

\* The booking of a booking row of the output
FtBookingAt(p) == ftData[ftRows[p].id]

\* The position of the date row that a row of the output stands under
FtHeading(p) ==
    CHOOSE h \in FtRowsOf("date") : h < p /\ \A g \in FtRowsOf("date") : g < p => g <= h

\* Booking a comes before booking b in the order of the sorts of the config
FtSortedBefore(a, b) ==
    IF \E s \in 1..Len(ftConfig.sorts) : ftConfig.sorts[s] \in FtColumns
    THEN \/ a.date < b.date
         \/ a.date = b.date /\ a.time < b.time
         \/ a.date = b.date /\ a.time = b.time /\ a.id < b.id
    ELSE a.id < b.id

\* C22: grouped by date, the output has for each day in ascending order one
\* date row, then each booking of the day once as a booking row, the bookings
\* by ascending start time, a divider after each time group when demark_train,
\* and with daily_totals one totals row and one divider at the end of the day,
\* the divider before the totals removed: no totals row follows a divider and
\* no divider follows a divider.  Not grouped, the output is one booking row per
\* booking in the sorted order.
C22_TableRowOrder ==
    ftDone
    => /\ \A i \in 1..Len(ftData) :
              Cardinality({p \in FtRowsOf("booking") : ftRows[p].id = i}) = 1
       /\ \A p \in FtRowsOf("booking") : ftRows[p].id \in 1..Len(ftData)
       /\ ~ftConfig.group_by_date
          => /\ Len(ftRows) = Len(ftData)
             /\ \A p, q \in 1..Len(ftRows) :
                    p < q => FtSortedBefore(FtBookingAt(p), FtBookingAt(q))
       /\ ftConfig.group_by_date
          => /\ {ftRows[p].date : p \in FtRowsOf("date")}
                    = {ftData[i].date : i \in 1..Len(ftData)}
             /\ \A p, q \in FtRowsOf("date") : p < q => ftRows[p].date < ftRows[q].date
             /\ ftRows # <<>> => ftRows[1].booking_type = "date"
             /\ \A p \in FtRowsOf("booking") :
                    FtBookingAt(p).date = ftRows[FtHeading(p)].date
             /\ \A p, q \in FtRowsOf("booking") :
                    (p < q /\ FtHeading(p) = FtHeading(q))
                    => FtBookingAt(p).time <= FtBookingAt(q).time
             \* the end of a time group
             /\ \A p \in FtRowsOf("booking") :
                    LET last_of_group ==
                            \/ p = Len(ftRows)
                            \/ ftRows[p + 1].booking_type # "booking"
                            \/ FtBookingAt(p + 1).time # FtBookingAt(p).time
                        last_of_day ==
                            p = Len(ftRows) \/ ftRows[p + 1].booking_type \in {"date", "totals"}
                    IN  (last_of_group /\ ftConfig.demark_train
                         /\ ~(ftDailyTotals /\ last_of_day))
                        => (p < Len(ftRows) /\ ftRows[p + 1].booking_type = "divider")
             \* the dividers
             /\ \A p \in FtRowsOf("divider") :
                    /\ p > 1
                    /\ ftRows[p - 1].booking_type \in {"booking", "totals"}
                    /\ ftRows[p - 1].booking_type = "booking" => ftConfig.demark_train
             \* the totals rows
             /\ ftDailyTotals
                => \A h \in FtRowsOf("date") :
                       \E t \in FtRowsOf("totals") :
                           /\ FtHeading(t) = h
                           /\ ftRows[t].date = ftRows[h].date
                           /\ ftRows[t - 1].booking_type = "booking"
                           /\ t < Len(ftRows) /\ ftRows[t + 1].booking_type = "divider"
                           /\ (t + 1 = Len(ftRows) \/ ftRows[t + 2].booking_type = "date")
                           /\ \A u \in FtRowsOf("totals") : FtHeading(u) = h => u = t
             /\ ~ftDailyTotals => FtRowsOf("totals") = {}
             /\ \A t \in FtRowsOf("totals") : ftRows[t - 1].booking_type # "divider"
             /\ \A p \in FtRowsOf("divider") : ftRows[p - 1].booking_type # "divider"

\* Two days, the first with two time groups, rendered with dividers and totals
C22_Witness ==
    /\ ftDone
    /\ ftConfig.group_by_date /\ ftConfig.demark_train /\ ftDailyTotals
    /\ Len(ftData) = 3
    /\ Cardinality(FtRowsOf("date")) = 2
    /\ Cardinality(FtRowsOf("divider")) = 3
    /\ ftRows[3].booking_type = "divider"
    /\ ftData[1].date = 2

\* The rank of a rule step in the declared order of the rule set: the position of
\* its column, the conversion before the extractions, the extractions in order
StepRank(config, step) ==
    LET fmt == INPUT_FORMAT[config]
        c == CHOOSE k \in 1..Len(fmt) : fmt[k].col = step.col
    IN  <<c, IF step.kind = "conversion" THEN 0
             ELSE IndexOf(fmt[c].extractions, step.name)>>

RankBefore(a, b) == a[1] < b[1] \/ (a[1] = b[1] /\ a[2] < b[2])

\* C1 (as claimed): the rule steps are applied in the order the rule set declares
\* them, whatever the order of the columns of the input dataset; within one column
\* the conversion runs before the extractions, which run in their declared order.
C1_DeclaredOrder ==
    \A i, j \in 1..Len(pbLog) :
        i < j => RankBefore(StepRank(pbConfig, pbLog[i]), StepRank(pbConfig, pbLog[j]))

-----------------------------------------------------------------------------
(* Specifications *)

Init == pbInit /\ ptIdle /\ totIdle /\ tlIdle /\ stIdle /\ wkIdle /\ siIdle /\ adIdle /\ otIdle /\ flIdle /\ cvIdle /\ prIdle /\ iaIdle /\ bdIdle /\ psIdle /\ cfIdle /\ ftIdle

Next == pbNext

\* The field derivation engine
Spec == Init /\ [][Next]_vars

\* The ticket-string parser of the breakdown
InitParseTickets == ptInit /\ pbIdle /\ totIdle /\ tlIdle /\ stIdle /\ wkIdle /\ siIdle /\ adIdle /\ otIdle /\ flIdle /\ cvIdle /\ prIdle /\ iaIdle /\ bdIdle /\ psIdle /\ cfIdle /\ ftIdle
SpecParseTickets == InitParseTickets /\ [][ptNext]_vars

InitTotals == totInit /\ pbIdle /\ ptIdle /\ tlIdle /\ stIdle /\ wkIdle /\ siIdle /\ adIdle /\ otIdle /\ flIdle /\ cvIdle /\ prIdle /\ iaIdle /\ bdIdle /\ psIdle /\ cfIdle /\ ftIdle
SpecTotals == InitTotals /\ [][totNext]_vars

InitTally == tlInit /\ pbIdle /\ ptIdle /\ totIdle /\ stIdle /\ wkIdle /\ siIdle /\ adIdle /\ otIdle /\ flIdle /\ cvIdle /\ prIdle /\ iaIdle /\ bdIdle /\ psIdle /\ cfIdle /\ ftIdle
SpecTally == InitTally /\ [][tlNext]_vars

InitSort == stInit /\ pbIdle /\ ptIdle /\ totIdle /\ tlIdle /\ wkIdle /\ siIdle /\ adIdle /\ otIdle /\ flIdle /\ cvIdle /\ prIdle /\ iaIdle /\ bdIdle /\ psIdle /\ cfIdle /\ ftIdle
SpecSort == InitSort /\ [][stNext]_vars

InitWalkin == wkInit /\ pbIdle /\ ptIdle /\ totIdle /\ tlIdle /\ stIdle /\ siIdle /\ adIdle /\ otIdle /\ flIdle /\ cvIdle /\ prIdle /\ iaIdle /\ bdIdle /\ psIdle /\ cfIdle /\ ftIdle
SpecWalkin == InitWalkin /\ [][wkNext]_vars

InitSplit == siInit /\ pbIdle /\ ptIdle /\ totIdle /\ tlIdle /\ stIdle /\ wkIdle /\ adIdle /\ otIdle /\ flIdle /\ cvIdle /\ prIdle /\ iaIdle /\ bdIdle /\ psIdle /\ cfIdle /\ ftIdle
SpecSplit == InitSplit /\ [][siNext]_vars

InitAdditional == adInit /\ pbIdle /\ ptIdle /\ totIdle /\ tlIdle /\ stIdle /\ wkIdle /\ siIdle /\ otIdle /\ flIdle /\ cvIdle /\ prIdle /\ iaIdle /\ bdIdle /\ psIdle /\ cfIdle /\ ftIdle
SpecAdditional == InitAdditional /\ [][adNext]_vars

InitOrder == otInit /\ pbIdle /\ ptIdle /\ totIdle /\ tlIdle /\ stIdle /\ wkIdle /\ siIdle /\ adIdle /\ flIdle /\ cvIdle /\ prIdle /\ iaIdle /\ bdIdle /\ psIdle /\ cfIdle /\ ftIdle
SpecOrder == InitOrder /\ [][otNext]_vars

InitFilters == flInit /\ pbIdle /\ ptIdle /\ totIdle /\ tlIdle /\ stIdle /\ wkIdle /\ siIdle /\ adIdle /\ otIdle /\ cvIdle /\ prIdle /\ iaIdle /\ bdIdle /\ psIdle /\ cfIdle /\ ftIdle
SpecFilters == InitFilters /\ [][flNext]_vars

InitConversions == cvInit /\ pbIdle /\ ptIdle /\ totIdle /\ tlIdle /\ stIdle /\ wkIdle /\ siIdle /\ adIdle /\ otIdle /\ flIdle /\ prIdle /\ iaIdle /\ bdIdle /\ psIdle /\ cfIdle /\ ftIdle
SpecConversions == InitConversions /\ [][cvNext]_vars

InitPresents == prInit /\ pbIdle /\ ptIdle /\ totIdle /\ tlIdle /\ stIdle /\ wkIdle /\ siIdle /\ adIdle /\ otIdle /\ flIdle /\ cvIdle /\ iaIdle /\ bdIdle /\ psIdle /\ cfIdle /\ ftIdle
SpecPresents == InitPresents /\ [][prNext]_vars

InitAccompanying == iaInit /\ pbIdle /\ ptIdle /\ totIdle /\ tlIdle /\ stIdle /\ wkIdle /\ siIdle /\ adIdle /\ otIdle /\ flIdle /\ cvIdle /\ prIdle /\ bdIdle /\ psIdle /\ cfIdle /\ ftIdle
SpecAccompanying == InitAccompanying /\ [][iaNext]_vars

InitBreakdown == bdInit /\ pbIdle /\ ptIdle /\ totIdle /\ tlIdle /\ stIdle /\ wkIdle /\ siIdle /\ adIdle /\ otIdle /\ flIdle /\ cvIdle /\ prIdle /\ iaIdle /\ psIdle /\ cfIdle /\ ftIdle
SpecBreakdown == InitBreakdown /\ [][bdNext]_vars

InitPresentTables == psInit /\ pbIdle /\ ptIdle /\ totIdle /\ tlIdle /\ stIdle /\ wkIdle /\ siIdle /\ adIdle /\ otIdle /\ flIdle /\ cvIdle /\ prIdle /\ iaIdle /\ bdIdle /\ cfIdle /\ ftIdle
SpecPresentTables == InitPresentTables /\ [][psNext]_vars

InitConfig == cfInit /\ pbIdle /\ ptIdle /\ totIdle /\ tlIdle /\ stIdle /\ wkIdle /\ siIdle /\ adIdle /\ otIdle /\ flIdle /\ cvIdle /\ prIdle /\ iaIdle /\ bdIdle /\ psIdle /\ ftIdle
SpecConfig == InitConfig /\ [][cfNext]_vars

InitTable == ftInit /\ pbIdle /\ ptIdle /\ totIdle /\ tlIdle /\ stIdle /\ wkIdle /\ siIdle /\ adIdle /\ otIdle /\ flIdle /\ cvIdle /\ prIdle /\ iaIdle /\ bdIdle /\ psIdle /\ cfIdle
SpecTable == InitTable /\ [][ftNext]_vars

=============================================================================
